---- MODULE Spec2Model ----
(***************************************************************************)
(* State-machine model of the LibraryCapture component (the capture        *)
(* orchestrator), of the LibraryCaptureService prompt client and of the    *)
(* LibraryEditor component of the BrainDrive Library plugin.               *)
(*                                                                         *)
(* One action models one handler run from its entry to its next await (or  *)
(* to its end): JavaScript runs a handler and the micro-tasks it resolves  *)
(* to completion before any other event is dispatched.  Network results    *)
(* (stream records, responses, failures) are separate actions.  React      *)
(* state updates queued in one handler run are applied in order.           *)
(*                                                                         *)
(* Text is a sequence of one-character strings so that trim() and          *)
(* concatenation are computed; fixed labels are one-element sequences.     *)
(***************************************************************************)
EXTENDS Integers, Sequences, FiniteSets, TLC

----------------------------------------------------------------------------
(* Bounds of the exploration. *)

\* Prompt calls started, records received (ids, text chunks, metadata
\* events), initialize() re-runs and transcript uploads in one run, together.
MaxWork == 4

\* The same for the runs of the single-shot configuration (SpecSingleShot).
MaxSingleShotWork == 5

\* The length of the path strings normalizePath is applied to (SpecPaths).
MaxPathLen == 3

\* The length of the catalogs and the number of reloads in the runs of the
\* default-model resolution (SpecDefaults).
MaxCatalogLen == 2
MaxDefaultsWork == 2
MaxScopesWork == 2
MaxEntries == 2
MaxFrameLen == 3
MaxStreamWork == 3

\* Clicks of "Set Default" in the runs of the status toast (SpecToast).
MaxSaves == 2

----------------------------------------------------------------------------
(* Values. *)

\* A catalog entry as loadModels builds it; NoModel stands for null.
ModelInfo(provider, serverId, name) ==
  [provider |-> provider, serverId |-> serverId, name |-> name]

NoModel == ModelInfo(<<>>, <<>>, <<>>)

\* The default-model properties of the page configuration, as given.
DefaultProps(key, provider, serverId, name) ==
  [key |-> key, provider |-> provider, serverId |-> serverId, name |-> name]

NoDefaultProps == DefaultProps(<<>>, <<>>, <<>>, <<>>)

\* The catalogs and configurations of the runs of the whole panel.
ModelIds == {ModelInfo(<<"ollama">>, <<"s1">>, <<"m1">>)}
Catalogs == {<<>>} \cup {<<m>> : m \in ModelIds}
ConfiguredDefaults == {NoDefaultProps}

\* The catalogs and configurations of the runs of the default-model
\* resolution (SpecDefaults): entries that differ in case, server and name,
\* and defaults given by key, by properties, malformed and not at all.
DefaultsModelIds ==
  {ModelInfo(<<"ollama">>, <<"s1">>, <<"m1">>),
   ModelInfo(<<"Ollama">>, <<"s2">>, <<"M1">>),
   ModelInfo(<<"ollama">>, <<"s1">>, <<"m2">>)}

DefaultsCatalogs ==
  UNION {[1..n -> DefaultsModelIds] : n \in 0..MaxCatalogLen}

DefaultsConfigured ==
  {DefaultProps(key, provider, serverId, name) :
     key \in {<<>>, <<"OLLAMA", "::", "s2", "::", "m1">>,
              <<"ollama", "::", "::", "m1">>},
     provider \in {<<>>, <<"ollama", " ">>},
     serverId \in {<<>>, <<"S1">>},
     name \in {<<>>, <<"M2">>, <<"zz">>}}

\* The scope lists and configurations of the runs of the scope selection
\* (SpecScopes): the life and project lists of one load, with entries with
\* and without a path, slug or name and a path with a blank before its
\* last slash, and defaults given by path, by slug with and without a
\* root, and not at all.
ScopesLists ==
  {[life |-> <<>>, projects |-> <<>>],
   [life |-> <<[path |-> <<"life", "/", "x", " ", "/">>, slug |-> <<>>,
                name |-> <<"x">>]>>,
    projects |-> <<[path |-> <<>>, slug |-> <<"X">>, name |-> <<"p">>]>>],
   [life |-> <<[path |-> <<"life", "/", "x">>, slug |-> <<>>, name |-> <<>>],
               [path |-> <<"\\", "a">>, slug |-> <<>>, name |-> <<>>]>>,
    projects |-> <<[path |-> <<>>, slug |-> <<"X">>, name |-> <<"p">>],
                   [path |-> <<"projects", "/", "active", "/", "b">>,
                    slug |-> <<>>, name |-> <<>>]>>]}

ScopesConfigured ==
  {[enabled |-> FALSE, path |-> <<>>, root |-> <<>>, slug |-> <<"X">>]}
    \cup
  {[enabled |-> TRUE, path |-> path, root |-> root, slug |-> slug] :
     path \in {<<>>, <<"B", "/">>},
     root \in {<<>>, <<" ", "projects">>},
     slug \in {<<"X">>, <<"zz">>}}

\* The scope paths of the project_scope_selected events of those runs.
ScopesEventPaths == {<<>>, <<"/", "life", "/", "X">>, <<"zz">>}

NoError == <<>>
ErrSelectModel == <<"Select a model before sending capture input.">>
ErrRequest == <<"failed">>   \* the message of a failed request
ErrLoad == ErrRequest
ErrNoText == <<"No response text received.">>
ErrNoTranscript == <<"No transcript text was extracted from the uploaded file.">>
ErrDocument == <<"Failed to process transcript file.">>

NoStatus == <<>>

ConvIds == {"c1", "c2"}
RequestIds == {"r1", "r2"}

Whitespace == {" "}
Chunks == {<<" ">>, <<"a">>, <<"b">>}
InputTexts == {<<>>, <<"p", " ">>}

NoApproval ==
  [request_id |-> "", tool |-> "", arguments |-> "", status |-> "none"]

NoDecision ==
  [action |-> "none", request_id |-> "", tool |-> "", arguments |-> ""]

----------------------------------------------------------------------------
(* String helpers. *)

RECURSIVE trimStart(_)
trimStart(s) ==
  IF s # <<>> /\ Head(s) \in Whitespace THEN trimStart(Tail(s)) ELSE s

RECURSIVE trimEnd(_)
trimEnd(s) ==
  IF s # <<>> /\ s[Len(s)] \in Whitespace
  THEN trimEnd(SubSeq(s, 1, Len(s) - 1))
  ELSE s

trim(s) == trimEnd(trimStart(s))

RECURSIVE Concat(_)
Concat(ss) == IF ss = <<>> THEN <<>> ELSE Head(ss) \o Concat(Tail(ss))

\* String.prototype.toLowerCase on the pieces of text used here.
lowerOf(piece) ==
  CASE piece = "OLLAMA" -> "ollama"
    [] piece = "Ollama" -> "ollama"
    [] piece = "M1" -> "m1"
    [] piece = "M2" -> "m2"
    [] piece = "S1" -> "s1"
    [] piece = "X" -> "x"
    [] piece = "B" -> "b"
    [] piece = "Y" -> "y"
    [] piece = "Life" -> "life"
    [] piece = "Library" -> "library"
    [] piece = "Capture" -> "capture"
    [] piece = "BrainDrive" -> "braindrive"
    [] piece = "Plugin" -> "plugin"
    [] OTHER -> piece

toLowerCase(s) == [i \in 1..Len(s) |-> lowerOf(s[i])]

\* The position of the first piece c of s after position from, or 0.
indexOf(s, c, from) ==
  IF \E i \in (from + 1)..Len(s) : s[i] = c
  THEN CHOOSE i \in (from + 1)..Len(s) :
         s[i] = c /\ \A j \in (from + 1)..(i - 1) : s[j] # c
  ELSE 0

\* s without the elements c it starts with: replace(/^c+/, "").
RECURSIVE dropLeading(_, _)
dropLeading(s, c) ==
  IF s # <<>> /\ Head(s) = c THEN dropLeading(Tail(s), c) ELSE s

\* s without the elements c it ends with: replace(/c+$/, "").
RECURSIVE dropTrailing(_, _)
dropTrailing(s, c) ==
  IF s # <<>> /\ s[Len(s)] = c
  THEN dropTrailing(SubSeq(s, 1, Len(s) - 1), c)
  ELSE s

\* Every run of backslashes becomes one slash: replace(/\\+/g, "/").
RECURSIVE replaceBackslashes(_)
replaceBackslashes(s) ==
  IF s = <<>> THEN <<>>
  ELSE IF Head(s) = "\\"
       THEN <<"/">> \o replaceBackslashes(dropLeading(s, "\\"))
       ELSE <<Head(s)>> \o replaceBackslashes(Tail(s))

\* normalizePath of the capture component.
normalizePath(value) ==
  dropTrailing(dropLeading(replaceBackslashes(trim(value)), "/"), "/")

\* normalizeScopePath of the capture service: the same four steps.
normalizeScopePath(value) ==
  dropTrailing(dropLeading(replaceBackslashes(trim(value)), "/"), "/")

\* The path strings of up to MaxPathLen characters over whitespace, the two
\* slashes and a letter.
PathChars == {" ", "/", "\\", "a"}

PathStrings == UNION {[1..n -> PathChars] : n \in 0..MaxPathLen}

----------------------------------------------------------------------------
(* State. *)

VARIABLES
  useStreaming,            \* configuration: enableStreaming and api.postStreaming
  configuredDefault,       \* configuration: the default-model properties
  models,                  \* state.models
  selectedModel,           \* state.selectedModel
  modelsLoading,           \* state.modelsLoading, and state.scopesLoading
                           \* (initialize sets the two together)
  scopeDefault,            \* configuration: the default-scope properties
  scopeOptions,            \* state.scopeOptions
  scopeEnabled,            \* state.scopeEnabled
  selectedScopePath,       \* state.selectedScopePath (<<>> = null)
  initsPending,            \* initialize() runs awaiting their loads
  initsStarted,            \* initialize() runs so far
  inputText,               \* state.inputText
  isSubmitting,            \* state.isSubmitting
  isProcessingTranscript,  \* state.isProcessingTranscript
  error,                   \* state.error
  transcriptError,         \* state.transcriptError
  pendingApproval,         \* state.pendingApproval
  activityStatus,          \* state.activityStatus
  conversationId,          \* state.conversationId ("" = null)
  messages,                \* state.messages
  nextId,                  \* ids handed out by generateId
  activeAbortController,   \* the call whose controller is held (0 = null)
  calls,                   \* prompt calls made to the capture service
  docPending,              \* a processDocument request is awaiting its result
  uploads,                 \* transcript uploads so far
  workLimit,               \* the bound on workSoFar in this run
  probe,                   \* a function under test, its argument and result
  save,                    \* a saveCaptureDefaultModelForPage call (see Save)
  defaultModelStatus,      \* state.defaultModelStatus (<<>> = null)
  isSavingDefaultModel,    \* state.isSavingDefaultModel
  defaultModelStatusTimeout, \* the timer handle held (0 = null)
  timers,                  \* the setTimeout timers not yet fired or cleared
  saves,                   \* clicks of "Set Default" so far
  loads,                   \* the loads of the initialize() run that SpecInit
                           \* follows load by load (see NoLoads)
  lockProjectScope,        \* configuration: lockProjectScope is true
  initRuns,                \* history: the initialize() runs in flight and
                           \* the run whose loads were stored last
  editor,                  \* the state of the LibraryEditor component and
                           \* its requests in flight (see NoEditor)
  lastOp                   \* history: the handler that ran last (see Op)

\* What the run has spent of MaxWork.
RECURSIVE SumOver(_, _)
SumOver(seq, field) ==
  IF seq = <<>> THEN 0 ELSE Head(seq)[field] + SumOver(Tail(seq), field)

recordsSoFar == SumOver(calls, "records")

workSoFar == Len(calls) + recordsSoFar + (initsStarted - 1) + uploads

toastVars ==
  <<defaultModelStatus, isSavingDefaultModel, defaultModelStatusTimeout,
    timers, saves>>
configVars ==
  <<useStreaming, configuredDefault, scopeDefault, workLimit, probe, save,
    toastVars, loads, lockProjectScope, editor>>
modelVars ==
  <<models, selectedModel, modelsLoading, scopeOptions, initsPending,
    initsStarted, initRuns>>
flagVars == <<isSubmitting, isProcessingTranscript, error, transcriptError>>
callbackVars ==
  <<pendingApproval, activityStatus, conversationId, messages, nextId, calls,
    scopeEnabled, selectedScopePath>>
uploadVars == <<docPending, uploads>>

progVars ==
  <<configVars, modelVars, inputText, flagVars, callbackVars,
    activeAbortController, uploadVars>>

vars == <<progVars, lastOp>>

----------------------------------------------------------------------------
(* Metadata events and stream records sent by the backend. *)

BaseEvent ==
  [type |-> "", stop |-> "", name |-> "", ok |-> TRUE, request_id |-> "",
   tool |-> "", arguments |-> "", status |-> "", has_request |-> TRUE,
   scope_path |-> <<>>]

NoEvent == BaseEvent

\* The events the backend sends in this exploration (handleMetadataEvent
\* itself covers every type): a tool call, approvals without and with a
\* request_id, and resolutions without an id, with that id and with another.
ToolEvents ==
  {[BaseEvent EXCEPT !.type = "tool_call", !.name = "x"]}

ApprovalRequestEvents ==
  {[BaseEvent EXCEPT !.type = "approval_request"],
   [BaseEvent EXCEPT !.type = "approval_request", !.request_id = "r1",
                     !.tool = "t1", !.arguments = "a1", !.status = "approved"]}

\* approval_required carries the approval in event.approval_request, which
\* a record may lack (has_request = FALSE).
ApprovalRequiredEvents ==
  {[BaseEvent EXCEPT !.type = "approval_required", !.has_request = FALSE]}

ApprovalResolutionEvents ==
  {[BaseEvent EXCEPT !.type = "approval_resolution", !.request_id = r,
                     !.status = "approved"] :
     r \in {""} \cup RequestIds}

MetadataEvents ==
  ToolEvents \cup ApprovalRequestEvents \cup ApprovalRequiredEvents
    \cup ApprovalResolutionEvents

\* The ten types LibraryCaptureService.sendPrompt routes to onMetadataEvent.
MetadataTypes ==
  {"project_scope_suggested", "project_scope_selected", "tooling_state",
   "tool_call", "tool_result", "auto_continue", "approval_request",
   "approval_required", "approval_resolution", "orchestration_context_error"}

----------------------------------------------------------------------------
(* The message log. *)

Message(id, sender, content, isStreaming, isError) ==
  [id |-> id, sender |-> sender, content |-> content,
   isStreaming |-> isStreaming, isError |-> isError]

InitialMessages ==
  <<Message(1, "ai", <<"Capture is ready.">>, FALSE, FALSE)>>

\* A log that puts new messages first: the variant the append-only property
\* must tell apart from appendMessage.
appendMessageFirst(log, message) == <<message>> \o log

appendMessage(log, message) == Append(log, message)

\* The messages of a log, the domain of an updater.
Messages(log) == {log[i] : i \in 1..Len(log)}

\* An update applied to every message whatever its id: the variant the
\* failure property must tell apart from updateMessage.
updateMessageAll(log, messageId, updater) ==
  [i \in 1..Len(log) |-> updater[log[i]]]

\* An update applied to every assistant message: the variant the
\* immutability property must tell apart from updateMessage.
updateAssistantMessages(log, messageId, updater) ==
  [i \in 1..Len(log) |->
     IF log[i].sender = "ai" THEN updater[log[i]] ELSE log[i]]

\* updater is a function on Messages(log).
updateMessage(log, messageId, updater) ==
  [i \in 1..Len(log) |->
     IF log[i].id = messageId THEN updater[log[i]] ELSE log[i]]

MessageIds(log) == [i \in 1..Len(log) |-> log[i].id]

IsPrefix(s, t) == Len(s) <= Len(t) /\ SubSeq(t, 1, Len(s)) = s

\* The part of the state the service callbacks write, as one record.
CallbackState ==
  [pendingApproval |-> pendingApproval, activityStatus |-> activityStatus,
   conversationId |-> conversationId, messages |-> messages,
   nextId |-> nextId, calls |-> calls,
   scopeEnabled |-> scopeEnabled, selectedScopePath |-> selectedScopePath]

SetCallbackState(s) ==
  /\ pendingApproval' = s.pendingApproval
  /\ activityStatus' = s.activityStatus
  /\ conversationId' = s.conversationId
  /\ messages' = s.messages
  /\ nextId' = s.nextId
  /\ calls' = s.calls
  /\ scopeEnabled' = s.scopeEnabled
  /\ selectedScopePath' = s.selectedScopePath

AppendSystemMessage(s, content, isError) ==
  [s EXCEPT !.messages =
              appendMessage(s.messages,
                            Message(s.nextId, "system", content, FALSE, isError)),
            !.nextId = s.nextId + 1]

----------------------------------------------------------------------------
(* Scopes: the options the service builds from the backend's lists, the     *)
(* configured default scope, and the scope parameters of a request.         *)

startsWith(s, prefix) ==
  Len(s) >= Len(prefix) /\ SubSeq(s, 1, Len(prefix)) = prefix

\* The part of s after its last slash: split("/") and the last part.
lastPart(s) ==
  LET slashes == {i \in 1..Len(s) : s[i] = "/"}
  IN IF slashes = {} THEN s
     ELSE SubSeq(s, (CHOOSE i \in slashes : \A j \in slashes : j <= i) + 1,
                 Len(s))

\* The pieces of text that are not letters or digits.
NonAlphanumeric == {" ", "/", "\\", "-", "_"}

RECURSIVE dropLeadingIn(_, _)
dropLeadingIn(s, set) ==
  IF s # <<>> /\ Head(s) \in set THEN dropLeadingIn(Tail(s), set) ELSE s

\* toLowerCase().replace(/[^a-z0-9]+/g, "-")
RECURSIVE dashRuns(_)
dashRuns(s) ==
  IF s = <<>> THEN <<>>
  ELSE IF Head(s) \in NonAlphanumeric
       THEN <<"-">> \o dashRuns(dropLeadingIn(s, NonAlphanumeric))
       ELSE <<lowerOf(Head(s))>> \o dashRuns(Tail(s))

slugify(value) == dropTrailing(dropLeading(dashRuns(trim(value)), "-"), "-")

\* An entry of a scope list as the backend sends it, and the ScopeOption
\* the service makes of it (NoScope stands for null).
RawScope(path, slug, name) == [path |-> path, slug |-> slug, name |-> name]

ScopeOption(name, slug, path, root) ==
  [name |-> name, slug |-> slug, path |-> path, scope_root |-> root]

NoScope == ScopeOption(<<>>, <<>>, <<>>, "")

normalizeScopeOption(raw, root) ==
  LET candidatePath == normalizeScopePath(raw.path)
      candidateSlug ==
        slugify(IF raw.slug # <<>> THEN raw.slug
                ELSE IF raw.name # <<>> THEN raw.name
                ELSE lastPart(candidatePath))
      basePath == IF root = "life"
                  THEN <<"life", "/">> \o candidateSlug
                  ELSE <<"projects", "/", "active", "/">> \o candidateSlug
      normalizedPath ==
        IF candidatePath = <<>> THEN basePath
        ELSE IF root = "life" /\ ~startsWith(candidatePath, <<"life", "/">>)
        THEN basePath
        ELSE IF root = "projects"
                /\ ~startsWith(candidatePath, <<"projects", "/">>)
        THEN basePath
        ELSE candidatePath
      name == IF trim(IF raw.name # <<>> THEN raw.name ELSE candidateSlug) # <<>>
              THEN trim(IF raw.name # <<>> THEN raw.name ELSE candidateSlug)
              ELSE candidateSlug
  IN IF candidateSlug = <<>> THEN NoScope
     ELSE ScopeOption(name, candidateSlug, normalizedPath, root)

\* values.map(normalizeScopeOption).filter(Boolean)
RECURSIVE loadScopes(_, _)
loadScopes(values, root) ==
  IF values = <<>> THEN <<>>
  ELSE LET option == normalizeScopeOption(Head(values), root)
       IN (IF option = NoScope THEN <<>> ELSE <<option>>)
            \o loadScopes(Tail(values), root)

\* left.name.localeCompare(right.name) < 0, for the names used here.
NameOrder == <<"a", "b", "p", "x">>

nameRank(name) ==
  IF name # <<>> /\ \E i \in 1..Len(NameOrder) : NameOrder[i] = name[1]
  THEN CHOOSE i \in 1..Len(NameOrder) : NameOrder[i] = name[1]
  ELSE Len(NameOrder) + 1

\* The comparator of sortScopes is negative: left sorts before right.
scopeBefore(left, right) ==
  IF left.scope_root # right.scope_root
  THEN left.scope_root = "life"
  ELSE nameRank(left.name) < nameRank(right.name)

\* A stable sort: an entry goes before the first later one it does not
\* sort after.
RECURSIVE sortScopes(_)
sortScopes(values) ==
  IF values = <<>> THEN <<>>
  ELSE LET rest == sortScopes(Tail(values))
           after == {i \in 1..Len(rest) : ~scopeBefore(rest[i], Head(values))}
           at == IF after = {} THEN Len(rest) + 1
                 ELSE CHOOSE i \in after : \A j \in after : i <= j
       IN SubSeq(rest, 1, at - 1) \o <<Head(values)>>
            \o SubSeq(rest, at, Len(rest))

\* The default-scope properties of the page configuration, as given.
ScopeProps(enabled, path, root, slug) ==
  [enabled |-> enabled, path |-> path, root |-> root, slug |-> slug]

NoScopeProps == ScopeProps(FALSE, <<>>, <<>>, <<>>)

getNormalizedDefaultScopePath(props) ==
  LET normalized == normalizePath(trim(props.path))
  IN IF normalized = <<>> THEN <<>>
     ELSE IF normalized = <<"capture">> THEN <<"capture">>
     ELSE IF \/ startsWith(normalized, <<"life", "/">>)
             \/ startsWith(normalized, <<"projects", "/">>)
     THEN normalized
     ELSE <<"projects", "/", "active", "/">> \o normalized

getNormalizedDefaultScopeRoot(props) ==
  LET raw == toLowerCase(trim(props.root))
  IN IF raw = <<"life">> THEN "life"
     ELSE IF raw = <<"projects">> THEN "projects"
     ELSE ""

getNormalizedDefaultProjectSlug(props) ==
  lastPart(normalizePath(trim(props.slug)))

\* A search that compares the paths as they are written: the variant the
\* scope-event property must tell apart from findScope.
findScopeExactCase(options, needle) ==
  LET found == {i \in 1..Len(options) :
                  normalizePath(options[i].path) = needle}
  IN IF found = {} THEN 0 ELSE CHOOSE i \in found : \A j \in found : i <= j

\* The index of the first option whose normalized path equals needle
\* case-insensitively, or 0: options.find(...) || null.
findScope(options, needle) ==
  LET found == {i \in 1..Len(options) :
                  toLowerCase(normalizePath(options[i].path))
                    = toLowerCase(needle)}
  IN IF found = {} THEN 0 ELSE CHOOSE i \in found : \A j \in found : i <= j

\* A slug comparison that ignores the configured root: the variant the
\* scope-default property must tell apart from scopeSlugMatches.
scopeSlugMatchesAnyRoot(entry, configuredRoot, configuredSlug) ==
  toLowerCase(trim(entry.slug)) = toLowerCase(configuredSlug)

\* The predicate of the second options.find of applyConfiguredScopeDefault.
scopeSlugMatches(entry, configuredRoot, configuredSlug) ==
  /\ configuredRoot # "" => entry.scope_root = configuredRoot
  /\ toLowerCase(trim(entry.slug)) = toLowerCase(configuredSlug)

\* The scopeEnabled and selectedScopePath applyConfiguredScopeDefault sets.
ScopeSelection(enabled, path) == [scopeEnabled |-> enabled, selectedScopePath |-> path]

applyConfiguredScopeDefault(options, props) ==
  LET configuredPath == getNormalizedDefaultScopePath(props)
      configuredRoot == getNormalizedDefaultScopeRoot(props)
      configuredSlug == getNormalizedDefaultProjectSlug(props)
      byPath == IF configuredPath # <<>>
                THEN findScope(options, configuredPath) ELSE 0
      slugFound == {i \in 1..Len(options) :
                      scopeSlugMatches(options[i], configuredRoot,
                                       configuredSlug)}
      bySlug == IF configuredSlug # <<>> /\ slugFound # {}
                THEN CHOOSE i \in slugFound : \A j \in slugFound : i <= j
                ELSE 0
      matched == IF byPath # 0 THEN byPath ELSE bySlug
  IN IF ~props.enabled \/ options = <<>> \/ matched = 0
     THEN ScopeSelection(FALSE, <<>>)
     ELSE ScopeSelection(TRUE, normalizePath(options[matched].path))

\* getSelectedScopeOption: an index into the options, or 0 for null.
getSelectedScopeOption(options, selected) ==
  IF selected = <<>> THEN 0 ELSE findScope(options, selected)

\* The scope parameters of buildMcpParams (an empty slug is undefined).
buildMcpParams(options, enabled, selected) ==
  LET selectedScope ==
        IF enabled THEN getSelectedScopeOption(options, selected) ELSE 0
      path == IF selectedScope # 0
              THEN normalizePath(options[selectedScope].path) ELSE <<>>
  IN [mcp_scope_mode |-> IF path # <<>> THEN "project" ELSE "none",
      mcp_project_slug |-> path]

----------------------------------------------------------------------------
(* LibraryCapture.handleMetadataEvent *)

toolName(ev) == IF ev.name = "" THEN "tool" ELSE ev.name

toolingStatus(ev, previous) ==
  CASE ev.stop = "approval_required" ->
         <<"Awaiting approval for a write action...">>
    [] ev.stop = "provider_timeout" ->
         <<"Model response timed out. Retry when ready.">>
    [] ev.stop = "missing_orchestration_context" ->
         <<"Missing required scope context for this write.">>
    [] ev.stop = "enabled" -> <<"Planning tool actions...">>
    [] OTHER -> previous

\* A normalisation that keeps the status the event carries: the variant the
\* pending-status property must tell apart from normalizeApproval.
normalizeApprovalKeepingStatus(rawApproval) ==
  [request_id |-> rawApproval.request_id,
   tool |-> IF rawApproval.tool = "" THEN "mutating_tool" ELSE rawApproval.tool,
   arguments |-> rawApproval.arguments,
   status |-> IF rawApproval.status = "" THEN "pending" ELSE rawApproval.status]

normalizeApproval(rawApproval) ==
  [request_id |-> rawApproval.request_id,
   tool |-> IF rawApproval.tool = "" THEN "mutating_tool" ELSE rawApproval.tool,
   arguments |-> rawApproval.arguments,
   status |-> "pending"]

resolutionTool(ev) == IF ev.tool = "" THEN "mutating_tool" ELSE ev.tool

resolutionContent(ev) ==
  CASE ev.status = "approved" -> <<"Approved: ", resolutionTool(ev)>>
    [] ev.status = "rejected" -> <<"Denied: ", resolutionTool(ev)>>
    [] OTHER -> <<"Approval resolved for: ", resolutionTool(ev)>>

resolutionStatus(ev) ==
  CASE ev.status = "approved" ->
         <<"Approved ", resolutionTool(ev), ". Continuing...">>
    [] ev.status = "rejected" -> <<"Denied ", resolutionTool(ev), ".">>
    [] OTHER -> <<"Approval resolved for ", resolutionTool(ev), ".">>

\* An updater that clears only on equal request ids: the variant the
\* unconditional-clear property must tell apart from resolutionClears.
resolutionClearsOnMatch(pending, ev) ==
  \/ pending = NoApproval
  \/ pending.request_id = ev.request_id

\* An updater that clears whatever is pending: the variant the
\* request-id property must tell apart from resolutionClears.
resolutionClearsAlways(pending, ev) == TRUE

\* The setState updater of the approval_resolution branch: TRUE when the
\* pending approval is cleared (and the status line replaced).
resolutionClears(pending, ev) ==
  \/ pending = NoApproval
  \/ pending.request_id = ""
  \/ ev.request_id = ""
  \/ pending.request_id = ev.request_id

handleMetadataEvent(s, ev) ==
  CASE ev.type = "tooling_state" ->
         [s EXCEPT !.activityStatus = toolingStatus(ev, s.activityStatus)]
    [] ev.type = "tool_call" ->
         [s EXCEPT !.activityStatus = <<"Running tool: ", toolName(ev), "...">>]
    [] ev.type = "tool_result" ->
         [s EXCEPT !.activityStatus =
            IF ev.ok THEN <<"Tool completed: ", toolName(ev), ".">>
                     ELSE <<"Tool failed: ", toolName(ev), ".">>]
    [] ev.type = "auto_continue" ->
         [s EXCEPT !.activityStatus = <<"Continuing response (pass next)...">>]
    [] ev.type = "orchestration_context_error" ->
         [s EXCEPT !.activityStatus =
            <<"Write is blocked until scope context is ready.">>]
    [] ev.type \in {"approval_request", "approval_required"} ->
         \* reading a field of a missing event.approval_request throws
         \* before any setState; the stream loop swallows the exception
         IF ev.type = "approval_required" /\ ~ev.has_request
         THEN s
         ELSE LET normalizedApproval == normalizeApproval(ev)
                  t == [s EXCEPT
                          !.pendingApproval = normalizedApproval,
                          !.activityStatus =
                            <<"Awaiting approval for ",
                              normalizedApproval.tool, "...">>]
              IN AppendSystemMessage(
                   t, <<"Approval required for tool: ",
                        normalizedApproval.tool>>, FALSE)
    [] ev.type = "approval_resolution" ->
         LET t == AppendSystemMessage(s, resolutionContent(ev), FALSE)
         IN IF resolutionClears(t.pendingApproval, ev)
            THEN [t EXCEPT !.pendingApproval = NoApproval,
                           !.activityStatus = resolutionStatus(ev)]
            ELSE t
    [] ev.type = "project_scope_selected" ->
         LET selectedPath == normalizePath(ev.scope_path)
             matched == findScope(scopeOptions, selectedPath)
         IN IF selectedPath = <<>> \/ matched = 0
            THEN s
            ELSE [s EXCEPT !.scopeEnabled = TRUE,
                           !.selectedScopePath = selectedPath,
                           !.activityStatus =
                             <<"Using scope: ", scopeOptions[matched].name, ".">>]
    [] OTHER -> s

----------------------------------------------------------------------------
(* The callbacks LibraryCapture.sendPrompt hands to the service for call k, *)
(* and what runs after the service call returns or throws.                  *)

\* A callback that puts each chunk before the text so far: the variant the
\* chunk-order property must tell apart from onChunk.
onChunkFirst(s, k, chunk) ==
  LET first == ~s.calls[k].hasReceivedChunk /\ trim(chunk) # <<>>
      prepend == [message \in Messages(s.messages) |->
                    [message EXCEPT !.content = chunk \o message.content]]
  IN [s EXCEPT
        !.activityStatus =
          IF first /\ s.pendingApproval = NoApproval
          THEN <<"Streaming response...">>
          ELSE s.activityStatus,
        !.calls[k].hasReceivedChunk = s.calls[k].hasReceivedChunk \/ first,
        !.calls[k].received = Append(s.calls[k].received, chunk),
        !.messages = updateMessage(s.messages, s.calls[k].messageId, prepend)]

onChunk(s, k, chunk) ==
  LET first == ~s.calls[k].hasReceivedChunk /\ trim(chunk) # <<>>
      append == [message \in Messages(s.messages) |->
                   [message EXCEPT !.content = message.content \o chunk]]
  IN [s EXCEPT
        !.activityStatus =
          IF first /\ s.pendingApproval = NoApproval
          THEN <<"Streaming response...">>
          ELSE s.activityStatus,
        !.calls[k].hasReceivedChunk = s.calls[k].hasReceivedChunk \/ first,
        !.calls[k].received = Append(s.calls[k].received, chunk),
        !.messages = updateMessage(s.messages, s.calls[k].messageId, append)]

onConversationId(s, id) == [s EXCEPT !.conversationId = id]

finalContent(content) ==
  IF trim(content) = <<>> THEN <<"(No textual response)">> ELSE trim(content)

\* A completion that also drops the pending approval: the variant the
\* property of the approval's lifetime must tell apart from onSuccess.
onSuccessClearingApproval(s, k) ==
  LET finish == [message \in Messages(s.messages) |->
                   [message EXCEPT !.content = finalContent(message.content),
                                   !.isStreaming = FALSE]]
  IN [s EXCEPT
        !.messages = updateMessage(s.messages, s.calls[k].messageId, finish),
        !.pendingApproval = NoApproval,
        !.activityStatus = <<"Response complete.">>,
        !.calls[k].status = "ok"]

onSuccess(s, k) ==
  LET finish == [message \in Messages(s.messages) |->
                   [message EXCEPT !.content = finalContent(message.content),
                                   !.isStreaming = FALSE]]
  IN [s EXCEPT
        !.messages = updateMessage(s.messages, s.calls[k].messageId, finish),
        !.activityStatus =
          IF s.pendingApproval # NoApproval
          THEN <<"Awaiting approval for ", s.pendingApproval.tool, "...">>
          ELSE <<"Response complete.">>,
        !.calls[k].status = "ok"]

\* A catch block that reports the error without touching the placeholder:
\* the variant the completion property must tell apart from onFailure.
onFailureLeavingPlaceholder(s, k, message) ==
  [s EXCEPT !.activityStatus = <<"Error: ">> \o message,
            !.calls[k].status = "failed"]

onFailure(s, k, message) ==
  LET fail == [existing \in Messages(s.messages) |->
                 [existing EXCEPT !.content = <<"Error: ">> \o message,
                                  !.isStreaming = FALSE, !.isError = TRUE]]
  IN [s EXCEPT
        !.messages = updateMessage(s.messages, s.calls[k].messageId, fail),
        !.activityStatus = <<"Error: ">> \o message,
        !.calls[k].status = "failed"]

----------------------------------------------------------------------------
(* LibraryCaptureService.sendPrompt: the stream demultiplexer and the       *)
(* single-shot response handling, for call k.                               *)

StreamRecord(kind, id, ev, text) ==
  [kind |-> kind, conversation_id |-> id, event |-> ev, text |-> text]

\* Records of a stream: the [DONE] sentinel, a line that is not JSON, and
\* JSON records carrying a conversation_id, extractable text, a metadata
\* event or nothing of these.  (A record carrying an id together with text
\* or an event acts as the id record followed by the other.)
StreamRecords ==
  {StreamRecord("done", "", NoEvent, <<>>),
   StreamRecord("malformed", "", NoEvent, <<>>)}
    \cup {StreamRecord("json", id, NoEvent, <<>>) : id \in {""} \cup ConvIds}
    \cup {StreamRecord("json", "", NoEvent, text) : text \in Chunks}
    \cup {StreamRecord("json", "", ev, <<>>) : ev \in MetadataEvents}

recordEvents(rec) ==
  IF rec.kind = "json" /\ rec.event.type \in MetadataTypes THEN 1 ELSE 0

\* What a record counts towards MaxRecords.
recordWeight(rec) ==
  IF rec.kind # "json" THEN 0
  ELSE (IF rec.conversation_id # "" THEN 1 ELSE 0)
         + (IF rec.event.type \in MetadataTypes \/ rec.text # <<>> THEN 1 ELSE 0)

\* idCallbacks counts the invocations of options.onConversationId made by
\* the call.
notifyConversationId(s, k, id) ==
  IF id # "" /\ s.calls[k].conversationId = ""
  THEN [onConversationId(s, id) EXCEPT !.calls[k].idCallbacks = @ + 1]
  ELSE s

\* A demultiplexer that also extracts the text of a metadata record: the
\* variant the routing property must tell apart from streamRecord.
streamRecordChunkingEvents(s, k, rec) ==
  IF rec.kind # "json"
  THEN s
  ELSE LET t == notifyConversationId(s, k, rec.conversation_id)
           u == IF rec.event.type \in MetadataTypes
                THEN handleMetadataEvent(t, rec.event) ELSE t
       IN IF rec.text # <<>> THEN onChunk(u, k, rec.text) ELSE u

\* The body of the loop over the lines of a frame, for one line.
streamRecord(s, k, rec) ==
  IF rec.kind # "json"
  THEN s
  ELSE LET t == notifyConversationId(s, k, rec.conversation_id)
       IN IF rec.event.type \in MetadataTypes
          THEN handleMetadataEvent(t, rec.event)
          ELSE IF rec.text # <<>> THEN onChunk(t, k, rec.text) ELSE t

\* for (const line of lines): the lines of a frame, in order.
RECURSIVE forEachLine(_, _, _)
forEachLine(s, k, lines) ==
  IF lines = <<>> THEN s
  ELSE forEachLine(streamRecord(s, k, Head(lines)), k, Tail(lines))

\* A callback that gives up the frame at its first line that is not JSON:
\* the variant the malformed-record property must tell apart from
\* streamFrame.
streamFrameUntilMalformed(s, k, frame) ==
  LET malformed == {n \in 1..Len(frame) : frame[n].kind = "malformed"}
  IN IF malformed = {} THEN forEachLine(s, k, frame)
     ELSE forEachLine(s, k,
            SubSeq(frame, 1,
                   (CHOOSE n \in malformed : \A m \in malformed : n <= m) - 1))

\* The chunk callback handed to postStreaming, for one frame: a sequence
\* of the records on its non-blank lines.
streamFrame(s, k, frame) == forEachLine(s, k, frame)

RECURSIVE frameWeight(_)
frameWeight(frame) ==
  IF frame = <<>> THEN 0
  ELSE recordWeight(Head(frame)) + frameWeight(Tail(frame))

\* The records and frames of the runs of the stream demultiplexer
\* (SpecStream): the sentinel, a line that is not JSON, text, a metadata
\* event that carries text as well, and text with a conversation_id.
FrameRecords ==
  {StreamRecord("done", "", NoEvent, <<>>),
   StreamRecord("malformed", "", NoEvent, <<>>),
   StreamRecord("json", "", NoEvent, <<"a">>),
   StreamRecord("json", "", NoEvent, <<"b">>),
   StreamRecord("json", "", [BaseEvent EXCEPT !.type = "tool_call",
                                              !.name = "x"], <<"b">>),
   StreamRecord("json", "c1", NoEvent, <<"a">>)}

StreamFrames == UNION {[1..n -> FrameRecords] : n \in 1..MaxFrameLen}

\* Single-shot response bodies.
ResponseTexts == {<<>>, <<" ">>, <<" ", "a">>}

Payloads ==
  [conversation_id : {""} \cup ConvIds,
   tooling_state : {NoEvent, [BaseEvent EXCEPT !.type = "tooling_state",
                                               !.stop = "enabled"]},
   approval_required : BOOLEAN,
   approval_request :
     {NoEvent, [BaseEvent EXCEPT !.type = "approval_required",
                                 !.request_id = "r2", !.tool = "t1"]},
   approval_resolution :
     {NoEvent,
      [BaseEvent EXCEPT !.type = "approval_resolution", !.status = "approved"]},
   text : ResponseTexts]

payloadHasApproval(payload) ==
  payload.approval_required /\ payload.approval_request # NoEvent

payloadEvents(payload) ==
  (IF payload.tooling_state # NoEvent THEN 1 ELSE 0)
    + (IF payloadHasApproval(payload) THEN 1 ELSE 0)
    + (IF payload.approval_resolution # NoEvent THEN 1 ELSE 0)

payloadWeight(payload) ==
  payloadEvents(payload)
    + (IF payload.conversation_id # "" THEN 1 ELSE 0)
    + (IF payload.text # <<>> THEN 1 ELSE 0)

\* A single-shot branch that throws whenever no text was extracted: the
\* variant the approval-only property must tell apart from
\* singleShotThrows.
singleShotThrowsWithoutText(payload) == payload.text = <<>>

\* TRUE when the single-shot branch throws "No response text received."
singleShotThrows(payload) ==
  /\ payload.text = <<>>
  /\ ~payload.approval_required
  /\ payload.approval_resolution = NoEvent

singleShotCallbacks(s, k, payload) ==
  LET s1 == notifyConversationId(s, k, payload.conversation_id)
      s2 == IF payload.tooling_state # NoEvent
            THEN handleMetadataEvent(s1, payload.tooling_state)
            ELSE s1
      s3 == IF payloadHasApproval(payload)
            THEN handleMetadataEvent(s2, payload.approval_request)
            ELSE s2
      s4 == IF payload.approval_resolution # NoEvent
            THEN handleMetadataEvent(s3, payload.approval_resolution)
            ELSE s3
  IN IF payload.text # <<>> THEN onChunk(s4, k, payload.text) ELSE s4

\* The state in which the last metadata event of a payload was handled.
beforeLastEvent(s, k, payload) ==
  LET s1 == notifyConversationId(s, k, payload.conversation_id)
      s2 == IF payload.tooling_state # NoEvent
            THEN handleMetadataEvent(s1, payload.tooling_state)
            ELSE s1
      s3 == IF payloadHasApproval(payload)
            THEN handleMetadataEvent(s2, payload.approval_request)
            ELSE s2
  IN IF payload.approval_resolution # NoEvent THEN s3
     ELSE IF payloadHasApproval(payload) THEN s2
     ELSE s1

lastEvent(payload) ==
  IF payload.approval_resolution # NoEvent THEN payload.approval_resolution
  ELSE IF payloadHasApproval(payload) THEN payload.approval_request
  ELSE payload.tooling_state

----------------------------------------------------------------------------
(* Initial state: the component constructed and mounted, its first          *)
(* initialize() awaiting the model and scope loads.                         *)

\* lastOp names the handler that ran last, with its argument and outcome,
\* when these cannot be read off the state (a rejected send, a metadata
\* event); other steps reset it.
Op(op, arg, ev, out) == [op |-> op, arg |-> arg, ev |-> ev, out |-> out]

OtherOp == Op("other", "", NoEvent, "")

\* The outcome noted with a metadata event: what was pending before it.
pendingBefore(pending) ==
  IF pending = NoApproval THEN "none"
  ELSE IF pending.request_id = "" THEN "pending" ELSE "pending-id"

\* A function applied on its own, outside the component's handlers.
----------------------------------------------------------------------------
(* LibraryPageDefaultsService: the match targets of a page document and     *)
(* saveCaptureDefaultModelForPage.  A name made of several words is a       *)
(* sequence of them: LibraryCapture is <<"Library", "Capture">>.            *)

LIBRARY_PLUGIN_SLUG == <<"BrainDrive", "Library", "Plugin">>
LIBRARY_CAPTURE_MODULE_NAME == <<"Library", "Capture">>

normalizeToken(value) == toLowerCase(trim(value))

Alphanumeric(piece) == piece \notin NonAlphanumeric

\* normalizeToken(value).replace(/[^a-z0-9]+/g, "")
compactToken(value) == SelectSeq(normalizeToken(value), Alphanumeric)

\* String.prototype.includes
includes(s, part) ==
  \E i \in 0..(Len(s) - Len(part)) : SubSeq(s, i + 1, i + Len(part)) = part

looksLikeCaptureToken(value) ==
  includes(compactToken(value), <<"library", "capture">>)

\* The default-model fields of a config or args object, beside a field of
\* its own (theme); an absent field is <<>>, and EmptyConfig is {} or no
\* object at all.
Config(theme, key, provider, serverId, name) ==
  [theme |-> theme, default_model_key |-> key,
   default_model_provider |-> provider, default_model_server_id |-> serverId,
   default_model_name |-> name]

EmptyConfig == Config(<<>>, <<>>, <<>>, <<>>, <<>>)

\* An entry of content.modules under its key, with the moduleId, moduleName
\* and plugin identifier it gives (in itself or in its config).
ModuleDefinition(key, moduleId, moduleName, pluginId, config) ==
  [key |-> key, moduleId |-> moduleId, moduleName |-> moduleName,
   pluginId |-> pluginId, config |-> config]

\* An item of a layout of content.layouts: its i, the moduleId, moduleName
\* and displayName of its args, its plugin identifier, and its args.
LayoutItem(i, moduleId, moduleName, displayName, pluginId, args) ==
  [i |-> i, moduleId |-> moduleId, moduleName |-> moduleName,
   displayName |-> displayName, pluginId |-> pluginId, args |-> args]

PageContent(modules, layouts) == [modules |-> modules, layouts |-> layouts]

NoContent == PageContent(<<>>, <<>>)

\* buildDefaultModelConfig; NoModelConfig stands for its throw.
NoModelConfig == Config(<<>>, <<>>, <<>>, <<>>, <<>>)

buildDefaultModelConfig(model) ==
  LET provider == trim(model.provider)
      serverId == trim(model.serverId)
      modelName == trim(model.name)
  IN IF provider = <<>> \/ serverId = <<>> \/ modelName = <<>>
     THEN NoModelConfig
     ELSE Config(<<>>, provider \o <<"::">> \o serverId \o <<"::">> \o modelName,
                 provider, serverId, modelName)

\* { ...existing, ...modelConfig }
mergeConfig(existing, modelConfig) ==
  [modelConfig EXCEPT !.theme = existing.theme]

requestedModuleMatches(requestedModuleId, candidates) ==
  LET requestedToken == normalizeToken(requestedModuleId)
      requestedCompact == compactToken(requestedToken)
  IN /\ requestedToken # <<>>
     /\ \E n \in 1..Len(candidates) :
          LET token == normalizeToken(candidates[n])
              compact == compactToken(token)
          IN /\ token # <<>>
             /\ \/ token = requestedToken
                \/ /\ compact # <<>>
                   /\ requestedCompact # <<>>
                   /\ \/ compact = requestedCompact
                      \/ includes(compact, requestedCompact)
                      \/ includes(requestedCompact, compact)

isLibraryPluginToken(value) ==
  normalizeToken(value) = normalizeToken(LIBRARY_PLUGIN_SLUG)

\* The request names no module of its own: it is empty, or it names the
\* capture module.
requestNamesCapture(requestedModuleId) ==
  \/ requestedModuleId = <<>>
  \/ looksLikeCaptureToken(requestedModuleId)
  \/ normalizeToken(requestedModuleId)
       = normalizeToken(LIBRARY_CAPTURE_MODULE_NAME)

moduleDefinitionMatchesCaptureTarget(moduleKey, moduleDefinition, requestedModuleId) ==
  LET moduleIdToken == normalizeToken(moduleDefinition.moduleId)
      moduleNameToken == normalizeToken(moduleDefinition.moduleName)
      pluginToken == normalizeToken(moduleDefinition.pluginId)
      looksLikeCaptureModule ==
        \/ looksLikeCaptureToken(moduleIdToken)
        \/ looksLikeCaptureToken(moduleNameToken)
        \/ looksLikeCaptureToken(moduleKey)
  IN IF /\ requestedModuleId # <<>>
        /\ requestedModuleMatches(requestedModuleId,
             <<moduleKey, moduleDefinition.moduleId,
               moduleDefinition.moduleName>>)
     THEN TRUE
     ELSE IF ~requestNamesCapture(requestedModuleId)
     THEN FALSE
     ELSE IF ~isLibraryPluginToken(pluginToken) /\ ~looksLikeCaptureModule
     THEN FALSE
     ELSE \/ moduleIdToken = normalizeToken(LIBRARY_CAPTURE_MODULE_NAME)
          \/ moduleNameToken = normalizeToken(LIBRARY_CAPTURE_MODULE_NAME)
          \/ looksLikeCaptureModule

layoutItemMatchesCaptureTarget(layoutItem, requestedModuleId) ==
  LET argsModuleId == normalizeToken(layoutItem.moduleId)
      argsModuleName == normalizeToken(layoutItem.moduleName)
      argsDisplayName == normalizeToken(layoutItem.displayName)
      layoutItemId == normalizeToken(layoutItem.i)
      pluginToken == normalizeToken(layoutItem.pluginId)
      looksLikeCaptureLayout ==
        \/ argsDisplayName = <<"library", " ", "capture">>
        \/ looksLikeCaptureToken(argsModuleId)
        \/ looksLikeCaptureToken(argsModuleName)
        \/ looksLikeCaptureToken(layoutItemId)
  IN IF /\ requestedModuleId # <<>>
        /\ requestedModuleMatches(requestedModuleId,
             <<layoutItem.moduleId, layoutItem.moduleName, layoutItem.i>>)
     THEN TRUE
     ELSE IF ~requestNamesCapture(requestedModuleId)
     THEN FALSE
     ELSE IF ~isLibraryPluginToken(pluginToken) /\ ~looksLikeCaptureLayout
     THEN FALSE
     ELSE \/ argsModuleId = normalizeToken(LIBRARY_CAPTURE_MODULE_NAME)
          \/ argsModuleName = normalizeToken(LIBRARY_CAPTURE_MODULE_NAME)
          \/ looksLikeCaptureLayout

\* The modules after applyDefaultModelToModules, and the number it returns.
applyDefaultModelToModules(modules, modelConfig, requestedModuleId) ==
  [n \in 1..Len(modules) |->
     IF moduleDefinitionMatchesCaptureTarget(modules[n].key, modules[n],
                                             requestedModuleId)
     THEN [modules[n] EXCEPT !.config = mergeConfig(@, modelConfig)]
     ELSE modules[n]]

updatedModules(modules, requestedModuleId) ==
  Cardinality({n \in 1..Len(modules) :
                 moduleDefinitionMatchesCaptureTarget(modules[n].key,
                   modules[n], requestedModuleId)})

\* The layout items after applyDefaultModelToLayouts, and the number it
\* returns.
applyDefaultModelToLayouts(layouts, modelConfig, requestedModuleId) ==
  [n \in 1..Len(layouts) |->
     IF layoutItemMatchesCaptureTarget(layouts[n], requestedModuleId)
     THEN [layouts[n] EXCEPT !.args = mergeConfig(@, modelConfig)]
     ELSE layouts[n]]

updatedLayouts(layouts, requestedModuleId) ==
  Cardinality({n \in 1..Len(layouts) :
                 layoutItemMatchesCaptureTarget(layouts[n],
                                                requestedModuleId)})

\* A check that never finds the targets missing: the variant the save
\* property must tell apart from targetsMissing.
targetsNeverMissing(updatedTargets) == FALSE

\* updatedTargets < 1
targetsMissing(updatedTargets) == updatedTargets < 1

\* String(pageId || "").trim().replace(/-/g, "")
RECURSIVE withoutDashes(_)
withoutDashes(s) ==
  IF s = <<>> THEN <<>>
  ELSE (IF Head(s) = "-" THEN <<>> ELSE <<Head(s)>>) \o withoutDashes(Tail(s))

normalizePageId(pageId) == withoutDashes(trim(pageId))

ErrNoApi == <<"API service is not available.">>
ErrNoPut == <<"API service does not support page updates.">>
ErrNoPageId == <<"Current page ID is unavailable.">>
ErrModelIncomplete ==
  <<"Selected model is missing provider, server, or model name.">>
ErrPageFormat == <<"Unexpected page API response format.">>
ErrPageJson == <<"SyntaxError">>
ErrPageContent == <<"Page content is not a valid JSON object.">>
ErrLocate == <<"Could not locate Library Capture module config for this page.">>

\* The options of a call: the api service the service holds ("none", one
\* without put, a full one), pageId, moduleId and selectedModel.
SaveOptions(api, pageId, moduleId, model) ==
  [api |-> api, pageId |-> pageId, moduleId |-> moduleId,
   selectedModel |-> model]

\* A call of saveCaptureDefaultModelForPage: where it stands ("none" when
\* there is no call, "called", "get" and "put" while it awaits that
\* request, "done", "failed"), the GETs and PUTs it issued, the content it
\* parsed and the content it put, and what it returned or threw.
Save(phase, options) ==
  [phase |-> phase, options |-> options, gets |-> 0, puts |-> 0,
   parsed |-> FALSE, content |-> NoContent, put |-> NoContent,
   updated_targets |-> 0, error |-> NoError]

NoSave == Save("none", SaveOptions("none", <<>>, <<>>, NoModel))

\* The page documents and calls of the runs of the page defaults service
\* (SpecPageDefaults): module definitions and layout items that are the
\* capture module by id, by key or by display name, that only belong to
\* the library plugin, and that are unrelated.
SaveModuleDefinitions ==
  {ModuleDefinition(<<"x">>, <<"Library", "Capture">>, <<>>,
                    LIBRARY_PLUGIN_SLUG, Config(<<"dark">>, <<>>, <<>>, <<>>, <<>>)),
   ModuleDefinition(<<"x">>, <<"editor">>, <<>>, LIBRARY_PLUGIN_SLUG,
                    EmptyConfig),
   ModuleDefinition(<<"library", "-", "capture", "-", "x">>, <<>>, <<>>, <<>>,
                    EmptyConfig),
   ModuleDefinition(<<"y">>, <<"y">>, <<>>, <<"other">>, EmptyConfig)}

SaveLayoutItems ==
  {LayoutItem(<<"x">>, <<>>, <<>>, <<"Library", " ", "Capture">>, <<>>,
              EmptyConfig),
   LayoutItem(<<"editor">>, <<>>, <<>>, <<>>, LIBRARY_PLUGIN_SLUG, EmptyConfig),
   LayoutItem(<<"y">>, <<>>, <<>>, <<>>, <<"other">>, EmptyConfig)}

SaveContents ==
  {PageContent(modules, layouts) :
     modules \in UNION {[1..n -> SaveModuleDefinitions] : n \in 0..MaxEntries},
     layouts \in UNION {[1..n -> SaveLayoutItems] : n \in 0..(MaxEntries - 1)}}

\* What the GET resolves with: a page whose content parses to an object,
\* or a response that extractPageRecord or parsePageContent rejects.
PageResponse(format, content) == [format |-> format, content |-> content]

PageResponses ==
  {PageResponse("page", content) : content \in SaveContents}
    \cup {PageResponse(format, NoContent) :
            format \in {"unexpected", "badjson", "notobject"}}

SaveCalls ==
  {Save("called", SaveOptions(api, pageId, moduleId, model)) :
     api \in {"none", "noput", "full"},
     pageId \in {<<"-">>, <<"p", "-", "1">>},
     moduleId \in {<<>>, <<"Library", "Capture">>, <<"Y">>},
     model \in {ModelInfo(<<"ollama">>, <<"s1">>, <<"m1">>),
                ModelInfo(<<"ollama">>, <<" ">>, <<"m1">>)}}

Probe(fn, arg) == [fn |-> fn, arg |-> arg, result |-> <<>>, done |-> FALSE]

NoProbe == Probe("none", <<>>)

\* One load of an initialize() run: pending, or settled with what it
\* returned ("ok") or by throwing ("failed").
Load(status, value) == [status |-> status, value |-> value]

\* The three loads handed to Promise.all, none settled; requests is what
\* each endpoint candidate of loadLifeScopes answered so far, and finished
\* the loads in the order they settled.
NoLoads ==
  [models |-> Load("pending", <<>>), projects |-> Load("pending", <<>>),
   life |-> Load("pending", <<>>), requests |-> <<>>, finished |-> <<>>]

\* The initialize() runs awaiting their loads, and what the runs that
\* succeeded loaded (see LoadedBy); runs are numbered in the order they were
\* started.
InitRuns(pending, loaded) == [pending |-> pending, loaded |-> loaded]

\* What run stored: the catalog and the merged scope options.
LoadedBy(run, catalog, mergedScopes) ==
  [run |-> run, models |-> catalog, scopeOptions |-> mergedScopes]

\* The runs are followed one by one in the runs of SpecReinit only; there is
\* no run 0.
NoInitRuns == InitRuns({0}, {})

\* The editor as constructed, before componentDidMount.  trees, reads and
\* writes are the requests in flight; mounted, op, requested and work are
\* history: the handler that ran last, the path last given to loadTree and
\* the requests issued so far.
NoEditor ==
  [currentPath |-> <<>>, items |-> <<>>, treeLoading |-> FALSE,
   treeError |-> FALSE, selectedFilePath |-> <<>>, fileLoading |-> FALSE,
   fileSaving |-> FALSE, fileError |-> FALSE, fileContent |-> <<>>,
   originalContent |-> <<>>, isEditing |-> FALSE,
   trees |-> <<>>, reads |-> <<>>, writes |-> <<>>,
   mounted |-> FALSE, op |-> "none", requested |-> <<>>, work |-> 0]

Constructed ==
  /\ models = <<>>
  /\ selectedModel = NoModel
  /\ scopeOptions = <<>>
  /\ scopeEnabled = FALSE
  /\ selectedScopePath = <<>>
  /\ modelsLoading = TRUE
  /\ initsPending = 1
  /\ initsStarted = 1
  /\ inputText = <<>>
  /\ isSubmitting = FALSE
  /\ isProcessingTranscript = FALSE
  /\ error = NoError
  /\ transcriptError = NoError
  /\ pendingApproval = NoApproval
  /\ activityStatus = NoStatus
  /\ conversationId = ""
  /\ messages = InitialMessages
  /\ nextId = 2
  /\ activeAbortController = 0
  /\ calls = <<>>
  /\ docPending = FALSE
  /\ uploads = 0
  /\ defaultModelStatus = NoStatus
  /\ isSavingDefaultModel = FALSE
  /\ defaultModelStatusTimeout = 0
  /\ timers = {}
  /\ saves = 0
  /\ loads = NoLoads
  /\ editor = NoEditor
  /\ lastOp = OtherOp

Init ==
  /\ useStreaming \in BOOLEAN
  /\ workLimit = MaxWork
  /\ probe = NoProbe
  /\ save = NoSave
  /\ configuredDefault \in ConfiguredDefaults
  /\ scopeDefault = NoScopeProps
  /\ lockProjectScope = FALSE
  /\ initRuns = NoInitRuns
  /\ Constructed

----------------------------------------------------------------------------
(* Model catalog: initialize, applyConfiguredModelDefault, model selection. *)

\* The parsed default {provider, serverId, modelName}; NoParsedDefault
\* stands for null, and an empty serverId for a null one.
ParsedDefault(provider, serverId, modelName) ==
  [provider |-> provider, serverId |-> serverId, modelName |-> modelName]

NoParsedDefault == ParsedDefault(<<>>, <<>>, <<>>)

\* getConfiguredStringValue trims the property it returns.
parseConfiguredDefaultModelKey(props) ==
  LET rawModelKey == trim(props.key)
      firstDelimiter == indexOf(rawModelKey, "::", 0)
      secondDelimiter == indexOf(rawModelKey, "::", firstDelimiter)
      keyProvider == trim(SubSeq(rawModelKey, 1, firstDelimiter - 1))
      keyServerId ==
        trim(SubSeq(rawModelKey, firstDelimiter + 1, secondDelimiter - 1))
      keyModelName ==
        trim(SubSeq(rawModelKey, secondDelimiter + 1, Len(rawModelKey)))
      provider == trim(props.provider)
      modelName == trim(props.name)
      serverId == trim(props.serverId)
  IN IF /\ rawModelKey # <<>>
        /\ firstDelimiter > 1
        /\ secondDelimiter > firstDelimiter + 1
        /\ keyProvider # <<>> /\ keyServerId # <<>> /\ keyModelName # <<>>
     THEN ParsedDefault(keyProvider, keyServerId, keyModelName)
     ELSE IF provider = <<>> \/ modelName = <<>>
     THEN NoParsedDefault
     ELSE ParsedDefault(provider, serverId, modelName)

\* A comparison that keeps the case: the variant the default-model property
\* must tell apart from normalize.
normalizeKeepingCase(value) == trim(value)

\* const normalize = (value) => value.trim().toLowerCase()
normalize(value) == toLowerCase(trim(value))

\* The predicate of models.find in applyConfiguredModelDefault.
modelMatches(model, parsedModelKey) ==
  /\ normalize(model.provider) = normalize(parsedModelKey.provider)
  /\ normalize(model.name) = normalize(parsedModelKey.modelName)
  /\ parsedModelKey.serverId # <<>>
       => normalize(model.serverId) = normalize(parsedModelKey.serverId)

applyConfiguredModelDefault(catalog, previous) ==
  LET parsedModelKey == parseConfiguredDefaultModelKey(configuredDefault)
      found == {i \in 1..Len(catalog) : modelMatches(catalog[i], parsedModelKey)}
  IN IF catalog = <<>>
     THEN NoModel
     ELSE IF parsedModelKey = NoParsedDefault
     THEN IF previous # NoModel THEN previous ELSE catalog[1]
     ELSE IF found # {}
     THEN catalog[CHOOSE i \in found : \A j \in found : i <= j]
     ELSE catalog[1]

\* A timer started without clearing the one held: the variant the
\* single-timer property must tell apart from resetDefaultModelStatusTimer.
startTimerWithoutClearing(status) ==
  IF status = NoStatus
  THEN UNCHANGED <<defaultModelStatusTimeout, timers>>
  ELSE LET handle == CHOOSE t \in 1..(Cardinality(timers) + 1) : t \notin timers
       IN /\ timers' = timers \cup {handle}
          /\ defaultModelStatusTimeout' = handle

\* resetDefaultModelStatusTimer, run with state.defaultModelStatus = status:
\* the timer held is cleared, and a new one started for a non-null status.
\* Its handle is one that no timer carries and that was not held before.
resetDefaultModelStatusTimer(status) ==
  LET cleared == timers \ {defaultModelStatusTimeout}
      used == timers \cup {defaultModelStatusTimeout}
      handle == CHOOSE t \in 1..(Cardinality(used) + 1) : t \notin used
  IN IF status = NoStatus
     THEN /\ timers' = cleared
          /\ defaultModelStatusTimeout' = 0
     ELSE /\ timers' = cleared \cup {handle}
          /\ defaultModelStatusTimeout' = handle

\* setState({defaultModelStatus: status}) and the componentDidUpdate that
\* follows, which resets the timer when the status is no longer the one
\* of prevState.
setDefaultModelStatus(status) ==
  /\ defaultModelStatus' = status
  /\ IF status # defaultModelStatus
     THEN resetDefaultModelStatusTimer(status)
     ELSE UNCHANGED <<defaultModelStatusTimeout, timers>>

\* componentDidUpdate: the api service changed, initialize() runs again.
apiServiceChanged ==
  /\ workSoFar < workLimit
  /\ initsStarted' = initsStarted + 1
  /\ initsPending' = initsPending + 1
  /\ initRuns' = IF initRuns = NoInitRuns THEN initRuns
                  ELSE [initRuns EXCEPT !.pending = @ \cup {initsStarted + 1}]
  /\ modelsLoading' = TRUE
  /\ error' = NoError
  /\ transcriptError' = NoError
  /\ UNCHANGED <<configVars, models, selectedModel, scopeOptions, inputText,
                 isSubmitting, isProcessingTranscript, callbackVars,
                 activeAbortController, uploadVars>>
  /\ lastOp' = OtherOp

\* The loads of one initialize() all succeeded: the catalog and the two
\* scope lists are stored and the configured defaults applied.
initializeLoaded(catalog, lifeValues, projectValues) ==
  /\ initsPending > 0
  /\ initsPending' = initsPending - 1
  /\ models' = catalog
  /\ modelsLoading' = FALSE
  /\ selectedModel' = applyConfiguredModelDefault(catalog, selectedModel)
  /\ LET mergedScopes == sortScopes(loadScopes(lifeValues, "life")
                                      \o loadScopes(projectValues, "projects"))
         selection == applyConfiguredScopeDefault(mergedScopes, scopeDefault)
     IN /\ scopeOptions' = mergedScopes
        /\ scopeEnabled' = selection.scopeEnabled
        /\ selectedScopePath' = selection.selectedScopePath
        /\ IF initRuns = NoInitRuns THEN UNCHANGED initRuns
           ELSE \E run \in initRuns.pending :
                  initRuns' =
                    InitRuns(initRuns.pending \ {run},
                             initRuns.loaded
                               \cup {LoadedBy(run, catalog, mergedScopes)})
  /\ UNCHANGED <<configVars, initsStarted, inputText, flagVars,
                 pendingApproval, activityStatus, conversationId, messages,
                 nextId, calls, activeAbortController, uploadVars>>
  /\ lastOp' = Op("initialize", "", NoEvent, "loaded")

\* One of the loads of an initialize() failed.
initializeFailed ==
  /\ initsPending > 0
  /\ initsPending' = initsPending - 1
  /\ IF initRuns = NoInitRuns THEN UNCHANGED initRuns
     ELSE \E run \in initRuns.pending :
            initRuns' = [initRuns EXCEPT !.pending = @ \ {run}]
  /\ modelsLoading' = FALSE
  /\ error' = ErrLoad
  /\ UNCHANGED <<configVars, models, selectedModel, scopeOptions,
                 initsStarted, inputText, isSubmitting, isProcessingTranscript,
                 transcriptError, callbackVars, activeAbortController,
                 uploadVars>>
  /\ lastOp' = OtherOp

\* The dropdown offers the catalog entries and is disabled while loading or
\* submitting.
handleModelSelection(value) ==
  /\ ~modelsLoading /\ ~isSubmitting /\ models # <<>>
  /\ \E i \in 1..Len(models) : models[i] = value
  /\ selectedModel' = value
  /\ setDefaultModelStatus(NoStatus)
  /\ UNCHANGED <<useStreaming, configuredDefault, scopeDefault, workLimit,
                 loads, lockProjectScope, editor, probe, save,
                 isSavingDefaultModel, saves, models, modelsLoading,
                 scopeOptions, initsPending, initsStarted, initRuns,
                 inputText, flagVars, callbackVars, activeAbortController,
                 uploadVars>>
  /\ lastOp' = OtherOp

\* The value of the scope dropdown that stands for no scope.
AllLibrary == <<"__all__">>

\* The values the scope dropdown offers: All Library and scope.path of
\* every option.
ScopeValues == {AllLibrary} \cup {scopeOptions[i].path : i \in 1..Len(scopeOptions)}

\* onChange of the scope dropdown, disabled while loading or submitting and
\* when the scope selection is locked.
handleScopeSelection(value) ==
  /\ ~modelsLoading /\ ~isSubmitting /\ ~lockProjectScope
  /\ value \in ScopeValues
  /\ IF value = AllLibrary
     THEN scopeEnabled' = FALSE /\ selectedScopePath' = <<>>
     ELSE scopeEnabled' = TRUE /\ selectedScopePath' = value
  /\ UNCHANGED <<configVars, modelVars, inputText, flagVars, pendingApproval,
                 activityStatus, conversationId, messages, nextId, calls,
                 activeAbortController, uploadVars>>
  /\ lastOp' = OtherOp

\* The composer textarea, disabled while submitting or processing.
inputChanged(text) ==
  /\ ~isSubmitting /\ ~isProcessingTranscript
  /\ inputText' = text
  /\ UNCHANGED <<configVars, modelVars, flagVars, callbackVars,
                 activeAbortController, uploadVars>>
  /\ lastOp' = OtherOp

----------------------------------------------------------------------------
(* LibraryCapture.sendPrompt up to its await, and its callers.              *)

\* A check that never finds the model missing: the variant the no-model
\* property must tell apart from modelMissing.
modelNeverMissing == FALSE

\* The first early return of sendPrompt: if (!selectedModel).
modelMissing == selectedModel = NoModel

\* TRUE when sendPrompt passes its two early returns.
sendStarts(prompt) == ~modelMissing /\ trim(prompt) # <<>>

\* What the body of a single-shot response held, noted with the call:
\* whether text was extracted from it and whether its approval_required
\* and approval_resolution fields were set.
Response(text, required, resolution) ==
  [received |-> TRUE, text |-> text, approval_required |-> required,
   approval_resolution |-> resolution]

NoResponse ==
  [received |-> FALSE, text |-> FALSE, approval_required |-> FALSE,
   approval_resolution |-> FALSE]

\* A call that starts a new conversation every time: the variant the
\* property of the conversation id sent must tell apart from newCall.
newCallWithoutConversation(messageId, approvalDecision, viaTranscript) ==
  [status |-> "running", aborted |-> FALSE, messageId |-> messageId,
   model |-> selectedModel, conversationId |-> "",
   mcp_approval |-> approvalDecision, viaTranscript |-> viaTranscript,
   mcpParams |-> buildMcpParams(scopeOptions, scopeEnabled,
                                selectedScopePath),
   received |-> <<>>, hasReceivedChunk |-> FALSE, records |-> 0,
   idCallbacks |-> 0, response |-> NoResponse]

newCall(messageId, approvalDecision, viaTranscript) ==
  [status |-> "running", aborted |-> FALSE, messageId |-> messageId,
   model |-> selectedModel, conversationId |-> conversationId,
   mcp_approval |-> approvalDecision, viaTranscript |-> viaTranscript,
   mcpParams |-> buildMcpParams(scopeOptions, scopeEnabled,
                                selectedScopePath),
   received |-> <<>>, hasReceivedChunk |-> FALSE, records |-> 0,
   idCallbacks |-> 0, response |-> NoResponse]

\* this.activeAbortController.abort() on the controller held, if any.
abortActive(cs, active) ==
  IF active # 0 THEN [cs EXCEPT ![active].aborted = TRUE] ELSE cs

\* Writes error, isSubmitting, the callback state and the controller; the
\* caller states the rest.
sendPrompt(prompt, approvalDecision, userLabel, viaTranscript) ==
  IF modelMissing
  THEN /\ error' = ErrSelectModel
       /\ UNCHANGED <<isSubmitting, callbackVars, activeAbortController>>
  ELSE IF trim(prompt) = <<>>
  THEN UNCHANGED <<error, isSubmitting, callbackVars, activeAbortController>>
  ELSE /\ workSoFar < workLimit
       /\ LET userContent ==
                IF trim(userLabel) # <<>> THEN trim(userLabel) ELSE trim(prompt)
              withUser ==
                appendMessage(messages,
                              Message(nextId, "user", userContent, FALSE, FALSE))
              withAssistant ==
                appendMessage(withUser,
                              Message(nextId + 1, "ai", <<>>, TRUE, FALSE))
          IN /\ messages' = withAssistant
             /\ nextId' = nextId + 2
             /\ calls' = Append(abortActive(calls, activeAbortController),
                                newCall(nextId + 1, approvalDecision,
                                        viaTranscript))
       /\ activeAbortController' = Len(calls) + 1
       /\ isSubmitting' = TRUE
       /\ error' = NoError
       /\ activityStatus' = <<"Thinking...">>
       /\ UNCHANGED <<pendingApproval, conversationId, scopeEnabled,
                      selectedScopePath>>

sendOutcome(prompt) ==
  IF modelMissing THEN "nomodel"
  ELSE IF trim(prompt) = <<>> THEN "noprompt"
  ELSE "started"

SendOutcomes == {"nomodel", "noprompt", "started"}

\* A guard that looks at isSubmitting only: the variant the no-op property
\* of handleSend must tell apart from sendBlocked.
sendBlockedWhileSubmitting == isSubmitting

sendBlocked == isSubmitting \/ isProcessingTranscript

handleSend ==
  IF sendBlocked
  THEN UNCHANGED progVars /\ lastOp' = Op("handleSend", "", NoEvent, "returned")
  ELSE IF trim(inputText) = <<>>
  THEN UNCHANGED progVars /\ lastOp' = Op("handleSend", "", NoEvent, "returned")
  ELSE /\ sendPrompt(trim(inputText), NoDecision, <<>>, FALSE)
       /\ UNCHANGED <<configVars, modelVars, inputText, isProcessingTranscript,
                      transcriptError, uploadVars>>
       /\ lastOp' = Op("handleSend", "", NoEvent, sendOutcome(trim(inputText)))

\* A decision that leaves out the request id: the variant the approval
\* payload property must tell apart from approvalDecisionFor.
approvalDecisionWithoutRequest(action, pending) ==
  [action |-> action, request_id |-> "",
   tool |-> pending.tool, arguments |-> pending.arguments]

approvalDecisionFor(action, pending) ==
  [action |-> action, request_id |-> pending.request_id,
   tool |-> pending.tool, arguments |-> pending.arguments]

approvalPrompt(action) ==
  IF action = "approve" THEN <<"Approve.">> ELSE <<"Deny.">>

approvalLabel(action) ==
  IF action = "approve" THEN <<"Approve">> ELSE <<"Deny">>

handleApprovalDecision(action) ==
  IF isSubmitting \/ pendingApproval = NoApproval
  THEN /\ UNCHANGED progVars
       /\ lastOp' = Op("handleApprovalDecision", "", NoEvent, "returned")
  ELSE /\ sendPrompt(approvalPrompt(action),
                     approvalDecisionFor(action, pendingApproval),
                     approvalLabel(action), FALSE)
       /\ UNCHANGED <<configVars, modelVars, inputText, isProcessingTranscript,
                      transcriptError, uploadVars>>
       /\ lastOp' = Op("handleApprovalDecision", action, NoEvent,
                       sendOutcome(approvalPrompt(action)))

----------------------------------------------------------------------------
(* Transcript upload: openTranscriptUpload and handleTranscriptSelected.    *)

TranscriptPrompt == <<"Capture transcript ingestion request.">>
TranscriptLabel == <<"Uploaded transcript: f">>
DocumentResults == {"text", "empty", "failed"}

\* The upload button (openTranscriptUpload) opens the file dialog only when
\* nothing is being submitted or processed; the file chosen starts
\* handleTranscriptSelected, which awaits processDocument.
handleTranscriptSelected ==
  /\ ~isSubmitting /\ ~isProcessingTranscript
  /\ workSoFar < workLimit
  /\ uploads' = uploads + 1
  /\ docPending' = TRUE
  /\ isProcessingTranscript' = TRUE
  /\ transcriptError' = NoError
  /\ UNCHANGED <<configVars, modelVars, inputText, isSubmitting, error,
                 callbackVars, activeAbortController>>
  /\ lastOp' = OtherOp

\* A handler that goes on to the prompt unless processDocument threw: the
\* variant the empty-text property must tell apart from transcriptThrows.
transcriptThrowsOnFailureOnly(result) == result = "failed"

\* The try block of handleTranscriptSelected throws before sendPrompt:
\* processDocument threw, or the trimmed text it extracted is empty.
transcriptThrows(result) == result \in {"failed", "empty"}

\* processDocument returned (or threw): the rest of handleTranscriptSelected
\* up to its await of sendPrompt, or through its catch and finally.
transcriptProcessed(result) ==
  /\ docPending
  /\ docPending' = FALSE
  /\ IF ~transcriptThrows(result)
     THEN /\ sendPrompt(TranscriptPrompt, NoDecision, TranscriptLabel, TRUE)
          /\ isProcessingTranscript' = sendStarts(TranscriptPrompt)
          /\ UNCHANGED transcriptError
          /\ lastOp' = Op("transcriptProcessed", result, NoEvent,
                          sendOutcome(TranscriptPrompt))
     ELSE LET message == IF result = "empty" THEN ErrNoTranscript
                                             ELSE ErrDocument
          IN /\ transcriptError' = message
             /\ SetCallbackState(
                  AppendSystemMessage(
                    CallbackState,
                    <<"Transcript upload failed: ">> \o message, TRUE))
             /\ isProcessingTranscript' = FALSE
             /\ UNCHANGED <<error, isSubmitting, activeAbortController>>
             /\ lastOp' = Op("transcriptProcessed", result, NoEvent, result)
  /\ UNCHANGED <<configVars, modelVars, inputText, uploads>>

----------------------------------------------------------------------------
(* Results of a prompt call k arriving from the network.                    *)

Running(k) == k \in 1..Len(calls) /\ calls[k].status = "running"

\* The abort signal is handed to api.postStreaming only; api.post of the
\* single-shot branch is called without it.
Cancelled(k) == useStreaming /\ calls[k].aborted

countRecords(s, k, n) == [s EXCEPT !.calls[k].records = @ + n]

\* The finally block of sendPrompt, and of handleTranscriptSelected when it
\* was the caller.
finishCall(k) ==
  /\ isSubmitting' = FALSE
  /\ inputText' = <<>>
  /\ activeAbortController' = 0
  /\ isProcessingTranscript' =
       IF calls[k].viaTranscript THEN FALSE ELSE isProcessingTranscript

\* postStreaming hands one more record of the stream to the service.
streamDelivers(k, rec) ==
  /\ useStreaming
  /\ Running(k) /\ ~Cancelled(k)
  /\ workSoFar + recordWeight(rec) <= workLimit
  /\ SetCallbackState(
       countRecords(streamRecord(CallbackState, k, rec), k, recordWeight(rec)))
  /\ UNCHANGED <<configVars, modelVars, inputText, flagVars,
                 activeAbortController, uploadVars>>
  /\ lastOp' = IF recordEvents(rec) = 1
               THEN Op("handleMetadataEvent", "", rec.event,
                       pendingBefore(pendingApproval))
               ELSE OtherOp

\* postStreaming resolved: the stream ended.
streamEnds(k) ==
  /\ useStreaming
  /\ Running(k)
  /\ SetCallbackState(onSuccess(CallbackState, k))
  /\ finishCall(k)
  /\ UNCHANGED <<configVars, modelVars, error, transcriptError, uploadVars>>
  /\ lastOp' = OtherOp

\* The service call threw: no api, a transport error, an aborted request.
promptFails(k) ==
  /\ Running(k)
  /\ SetCallbackState(onFailure(CallbackState, k, ErrRequest))
  /\ error' = ErrRequest
  /\ finishCall(k)
  /\ UNCHANGED <<configVars, modelVars, transcriptError, uploadVars>>
  /\ lastOp' = OtherOp

\* api.post resolved with the one response body of a single-shot call.
singleShotResponds(k, payload) ==
  /\ ~useStreaming
  /\ Running(k)
  /\ workSoFar + payloadWeight(payload) <= workLimit
  /\ LET t == countRecords(singleShotCallbacks(CallbackState, k, payload),
                           k, payloadWeight(payload))
         s == [t EXCEPT !.calls[k].response =
                 Response(payload.text # <<>>, payload.approval_required,
                          payload.approval_resolution # NoEvent)]
     IN IF singleShotThrows(payload)
        THEN /\ SetCallbackState(onFailure(s, k, ErrNoText))
             /\ error' = ErrNoText
        ELSE /\ SetCallbackState(onSuccess(s, k))
             /\ UNCHANGED error
  /\ lastOp' = IF payloadEvents(payload) > 0
               THEN Op("handleMetadataEvent", "", lastEvent(payload),
                       pendingBefore(
                         beforeLastEvent(CallbackState, k, payload)
                           .pendingApproval))
               ELSE OtherOp
  /\ finishCall(k)
  /\ UNCHANGED <<configVars, modelVars, transcriptError, uploadVars>>

----------------------------------------------------------------------------

Next ==
  \/ apiServiceChanged
  \/ \E catalog \in Catalogs : initializeLoaded(catalog, <<>>, <<>>)
  \/ initializeFailed
  \/ \E value \in ModelIds : handleModelSelection(value)
  \/ \E value \in ScopeValues : handleScopeSelection(value)
  \/ \E text \in InputTexts : inputChanged(text)
  \/ handleSend
  \/ \E action \in {"approve", "reject"} : handleApprovalDecision(action)
  \/ handleTranscriptSelected
  \/ \E result \in DocumentResults : transcriptProcessed(result)
  \/ \E k \in 1..Len(calls), rec \in StreamRecords : streamDelivers(k, rec)
  \/ \E k \in 1..Len(calls) : streamEnds(k)
  \/ \E k \in 1..Len(calls) : promptFails(k)
  \/ \E k \in 1..Len(calls), payload \in Payloads : singleShotResponds(k, payload)

Spec == Init /\ [][Next]_vars

----------------------------------------------------------------------------
(* The single-shot configuration: streaming disabled (enableStreaming      *)
(* false, or an api service without postStreaming).                         *)

InitSingleShot ==
  /\ useStreaming = FALSE
  /\ workLimit = MaxSingleShotWork
  /\ probe = NoProbe
  /\ save = NoSave
  /\ configuredDefault \in ConfiguredDefaults
  /\ scopeDefault = NoScopeProps
  /\ lockProjectScope = FALSE
  /\ initRuns = NoInitRuns
  /\ Constructed

\* The steps of Next a single-shot run can take, without the reloads of
\* the catalog (componentDidUpdate), which Spec explores.
NextSingleShot ==
  \/ \E catalog \in Catalogs : initializeLoaded(catalog, <<>>, <<>>)
  \/ initializeFailed
  \/ \E value \in ModelIds : handleModelSelection(value)
  \/ \E value \in ScopeValues : handleScopeSelection(value)
  \/ \E text \in InputTexts : inputChanged(text)
  \/ handleSend
  \/ \E action \in {"approve", "reject"} : handleApprovalDecision(action)
  \/ handleTranscriptSelected
  \/ \E result \in DocumentResults : transcriptProcessed(result)
  \/ \E k \in 1..Len(calls) : promptFails(k)
  \/ \E k \in 1..Len(calls), payload \in Payloads : singleShotResponds(k, payload)

SpecSingleShot == InitSingleShot /\ [][NextSingleShot]_vars

----------------------------------------------------------------------------
(* The path normalisers applied on their own to every path string.          *)

InitPaths ==
  /\ useStreaming = TRUE
  /\ workLimit = 0
  /\ probe \in {Probe(fn, path) :
                  fn \in {"normalizePath", "normalizeScopePath"},
                  path \in PathStrings}
  /\ save = NoSave
  /\ configuredDefault = NoDefaultProps
  /\ scopeDefault = NoScopeProps
  /\ lockProjectScope = FALSE
  /\ initRuns = NoInitRuns
  /\ Constructed

----------------------------------------------------------------------------
(* The default-model resolution on its own: initialize() and the model      *)
(* dropdown over catalogs and configured defaults of every shape.           *)

InitDefaults ==
  /\ useStreaming = TRUE
  /\ workLimit = MaxDefaultsWork
  /\ probe = NoProbe
  /\ save = NoSave
  /\ configuredDefault \in DefaultsConfigured
  /\ scopeDefault = NoScopeProps
  /\ lockProjectScope = FALSE
  /\ initRuns = NoInitRuns
  /\ Constructed

NextDefaults ==
  \/ apiServiceChanged
  \/ \E catalog \in DefaultsCatalogs : initializeLoaded(catalog, <<>>, <<>>)
  \/ initializeFailed
  \/ \E value \in DefaultsModelIds : handleModelSelection(value)

SpecDefaults == InitDefaults /\ [][NextDefaults]_vars

----------------------------------------------------------------------------
(* The scope selection on its own: initialize() over scope lists of every   *)
(* shape, the scope dropdown, and prompt calls whose stream carries         *)
(* project_scope_selected events.                                           *)

InitScopes ==
  /\ useStreaming = TRUE
  /\ workLimit = MaxScopesWork
  /\ probe = NoProbe
  /\ save = NoSave
  /\ configuredDefault = NoDefaultProps
  /\ scopeDefault \in ScopesConfigured
  /\ lockProjectScope = FALSE
  /\ initRuns = NoInitRuns
  /\ Constructed

ScopesStreamRecords ==
  {StreamRecord("json", "", [BaseEvent EXCEPT !.type = "project_scope_selected",
                                              !.scope_path = path], <<>>) :
     path \in ScopesEventPaths}

NextScopes ==
  \/ apiServiceChanged
  \/ \E model \in ModelIds, loaded \in ScopesLists :
       initializeLoaded(<<model>>, loaded.life, loaded.projects)
  \/ initializeFailed
  \/ \E value \in ScopeValues : handleScopeSelection(value)
  \/ \E text \in InputTexts : inputChanged(text)
  \/ handleSend
  \/ \E k \in 1..Len(calls), rec \in ScopesStreamRecords : streamDelivers(k, rec)
  \/ \E k \in 1..Len(calls) : streamEnds(k)

SpecScopes == InitScopes /\ [][NextScopes]_vars

----------------------------------------------------------------------------
(* LibraryPageDefaultsService.saveCaptureDefaultModelForPage on its own,    *)
(* over page documents and calls of every shape.                            *)

InitPageDefaults ==
  /\ useStreaming = TRUE
  /\ workLimit = 0
  /\ probe = NoProbe
  /\ save \in SaveCalls
  /\ configuredDefault = NoDefaultProps
  /\ scopeDefault = NoScopeProps
  /\ lockProjectScope = FALSE
  /\ initRuns = NoInitRuns
  /\ Constructed

saveFails(message) == save' = [save EXCEPT !.phase = "failed", !.error = message]

\* saveCaptureDefaultModelForPage up to its await of api.get.
saveStarted ==
  /\ save.phase = "called"
  /\ IF save.options.api = "none" THEN saveFails(ErrNoApi)
     ELSE IF save.options.api = "noput" THEN saveFails(ErrNoPut)
     ELSE IF normalizePageId(save.options.pageId) = <<>>
     THEN saveFails(ErrNoPageId)
     ELSE IF buildDefaultModelConfig(save.options.selectedModel) = NoModelConfig
     THEN saveFails(ErrModelIncomplete)
     ELSE save' = [save EXCEPT !.phase = "get", !.gets = @ + 1]
  /\ UNCHANGED <<useStreaming, configuredDefault, scopeDefault, workLimit,
                 toastVars, loads, lockProjectScope, editor,
                 probe, modelVars, inputText, flagVars, callbackVars,
                 activeAbortController, uploadVars, lastOp>>

\* api.get resolved: the page is parsed, the targets are written in a
\* clone of its content, and the clone is put unless there was no target.
pageReturned(response) ==
  /\ save.phase = "get"
  /\ LET requestedModuleId == normalizeToken(save.options.moduleId)
         modelConfig == buildDefaultModelConfig(save.options.selectedModel)
         parsedContent == response.content
         updatedContent ==
           PageContent(
             applyDefaultModelToModules(parsedContent.modules, modelConfig,
                                        requestedModuleId),
             applyDefaultModelToLayouts(parsedContent.layouts, modelConfig,
                                        requestedModuleId))
         updatedTargets ==
           updatedModules(parsedContent.modules, requestedModuleId)
             + updatedLayouts(parsedContent.layouts, requestedModuleId)
     IN IF response.format = "unexpected" THEN saveFails(ErrPageFormat)
        ELSE IF response.format = "badjson" THEN saveFails(ErrPageJson)
        ELSE IF response.format = "notobject" THEN saveFails(ErrPageContent)
        ELSE IF targetsMissing(updatedTargets)
        THEN save' = [save EXCEPT !.phase = "failed", !.error = ErrLocate,
                                  !.parsed = TRUE, !.content = parsedContent]
        ELSE save' = [save EXCEPT !.phase = "put", !.puts = @ + 1,
                                  !.parsed = TRUE, !.content = parsedContent,
                                  !.put = updatedContent,
                                  !.updated_targets = updatedTargets]
  /\ UNCHANGED <<useStreaming, configuredDefault, scopeDefault, workLimit,
                 toastVars, loads, lockProjectScope, editor,
                 probe, modelVars, inputText, flagVars, callbackVars,
                 activeAbortController, uploadVars, lastOp>>

\* api.get or api.put rejected.
requestRejected ==
  /\ save.phase \in {"get", "put"}
  /\ saveFails(ErrRequest)
  /\ UNCHANGED <<useStreaming, configuredDefault, scopeDefault, workLimit,
                 toastVars, loads, lockProjectScope, editor,
                 probe, modelVars, inputText, flagVars, callbackVars,
                 activeAbortController, uploadVars, lastOp>>

\* api.put resolved: the call returns its result.
putReturned ==
  /\ save.phase = "put"
  /\ save' = [save EXCEPT !.phase = "done"]
  /\ UNCHANGED <<useStreaming, configuredDefault, scopeDefault, workLimit,
                 toastVars, loads, lockProjectScope, editor,
                 probe, modelVars, inputText, flagVars, callbackVars,
                 activeAbortController, uploadVars, lastOp>>

NextPageDefaults ==
  \/ saveStarted
  \/ \E response \in PageResponses : pageReturned(response)
  \/ requestRejected
  \/ putReturned

SpecPageDefaults == InitPageDefaults /\ [][NextPageDefaults]_vars

----------------------------------------------------------------------------
(* The stream demultiplexer on its own: prompt calls whose stream arrives   *)
(* in frames of several records.                                            *)

InitStream ==
  /\ useStreaming = TRUE
  /\ workLimit = MaxStreamWork
  /\ probe = Probe("streamFrame", <<>>)
  /\ save = NoSave
  /\ configuredDefault \in ConfiguredDefaults
  /\ scopeDefault = NoScopeProps
  /\ lockProjectScope = FALSE
  /\ initRuns = NoInitRuns
  /\ Constructed

\* postStreaming hands one more frame of the stream to the service; probe
\* keeps the frame handed over last.
frameDelivers(k, frame) ==
  /\ useStreaming
  /\ Running(k) /\ ~Cancelled(k)
  /\ workSoFar + frameWeight(frame) <= workLimit
  /\ SetCallbackState(
       countRecords(streamFrame(CallbackState, k, frame), k,
                    frameWeight(frame)))
  /\ probe' = [probe EXCEPT !.arg = frame, !.done = TRUE]
  /\ UNCHANGED <<useStreaming, configuredDefault, scopeDefault, workLimit,
                 toastVars, loads, lockProjectScope, editor,
                 save, modelVars, inputText, flagVars, activeAbortController,
                 uploadVars>>
  /\ lastOp' = OtherOp

NextStream ==
  \/ \E catalog \in Catalogs : initializeLoaded(catalog, <<>>, <<>>)
  \/ \E text \in InputTexts : inputChanged(text)
  \/ handleSend
  \/ \E k \in 1..Len(calls), frame \in StreamFrames : frameDelivers(k, frame)
  \/ \E k \in 1..Len(calls) : streamEnds(k)
  \/ \E k \in 1..Len(calls) : promptFails(k)

SpecStream == InitStream /\ [][NextStream]_vars

normalizePathApplied ==
  /\ probe.fn = "normalizePath" /\ ~probe.done
  /\ probe' = [probe EXCEPT !.result = normalizePath(probe.arg),
                            !.done = TRUE]
  /\ UNCHANGED <<useStreaming, configuredDefault, scopeDefault, workLimit,
                 toastVars, loads, lockProjectScope, editor,
                 save, modelVars, inputText, flagVars, callbackVars,
                 activeAbortController, uploadVars, lastOp>>

normalizeScopePathApplied ==
  /\ probe.fn = "normalizeScopePath" /\ ~probe.done
  /\ probe' = [probe EXCEPT !.result = normalizeScopePath(probe.arg),
                            !.done = TRUE]
  /\ UNCHANGED <<useStreaming, configuredDefault, scopeDefault, workLimit,
                 toastVars, loads, lockProjectScope, editor,
                 save, modelVars, inputText, flagVars, callbackVars,
                 activeAbortController, uploadVars, lastOp>>

NextPaths == normalizePathApplied \/ normalizeScopePathApplied

SpecPaths == InitPaths /\ [][NextPaths]_vars

----------------------------------------------------------------------------
(* Properties of the capture panel.                                         *)

LastCall == calls[Len(calls)]

IssuedCall == Len(calls') = Len(calls) + 1

NoRequestIssued ==
  /\ Len(calls') = Len(calls)
  /\ initsStarted' = initsStarted
  /\ uploads' = uploads

MessageOf(k) ==
  CHOOSE m \in Messages(messages) :
    m.id = calls[k].messageId

Outstanding(k) == Running(k) /\ ~Cancelled(k)

\* C1: at most one prompt call is outstanding at any time: a call still
\* awaiting its response, whose request was not cancelled, is the only one.
C1_AtMostOneOutstandingCall ==
  Cardinality({k \in 1..Len(calls) : Outstanding(k)}) <= 1

\* C2: while an approval is pending, every prompt request issued is the one
\* of handleApprovalDecision, that is, it carries an approval decision.
C2_OnlyDecisionWhilePending ==
  [][(pendingApproval # NoApproval /\ IssuedCall)
       => calls'[Len(calls')].mcp_approval # NoDecision]_vars

\* C3: the panel holds no approval or one approval, and an approval held has
\* status pending.
C3_PendingApprovalStatus ==
  /\ pendingApproval.status \in {"none", "pending"}
  /\ pendingApproval.status = "none" => pendingApproval = NoApproval

\* C3, its case: an approval request carrying a status of its own arrived
\* while another approval was pending, and replaced it.
C3_Witness ==
  /\ lastOp.op = "handleMetadataEvent"
  /\ lastOp.ev.type = "approval_request"
  /\ lastOp.ev.status = "approved"
  /\ lastOp.out # "none"
  /\ pendingApproval.request_id = lastOp.ev.request_id

\* C4: after an approval_resolution event without a request_id is handled,
\* no approval is pending, whatever was pending before.
C4_ResolutionWithoutIdClears ==
  (/\ lastOp.op = "handleMetadataEvent"
   /\ lastOp.ev.type = "approval_resolution"
   /\ lastOp.ev.request_id = "")
    => pendingApproval = NoApproval

\* C4, its case: the resolution without a request_id arrived while an
\* approval with a request_id was pending.
C4_Witness ==
  /\ lastOp.op = "handleMetadataEvent"
  /\ lastOp.ev.type = "approval_resolution"
  /\ lastOp.ev.request_id = ""
  /\ lastOp.out = "pending-id"

\* C5: once conversationId is non-null no step changes it.
C5_ConversationIdFirstWins ==
  [][conversationId # "" => conversationId' = conversationId]_vars

\* C6: every step leaves the message ids it found as a prefix of the
\* message ids it leaves: messages are appended or updated in place, never
\* removed or reordered.
C6_MessageLogAppendOnly ==
  [][IsPrefix(MessageIds(messages), MessageIds(messages'))]_vars

\* C6, its case: a message in the middle of the log was updated in place
\* after later messages had been appended.
C6_Witness ==
  \E k \in 1..Len(calls) :
    /\ calls[k].status = "ok"
    /\ calls[k].received # <<>>
    /\ \E i \in 1..Len(messages) :
         messages[i].id = calls[k].messageId /\ i < Len(messages)

\* C7: a step that reaches sendPrompt with no model selected issues no
\* request of any kind and leaves an error set.
C7_NoModelNoRequest ==
  [][(selectedModel = NoModel /\ lastOp'.out \in SendOutcomes)
       => (NoRequestIssued /\ error' # NoError)]_vars

\* C7, its case: an approval decision was taken with no model selected.
C7_Witness ==
  /\ lastOp.op = "handleApprovalDecision"
  /\ lastOp.out = "nomodel"
  /\ selectedModel = NoModel
  /\ error = ErrSelectModel

\* C8: the message of a call that completed normally holds the chunks in the
\* order received, concatenated and trimmed, or the placeholder when that is
\* empty.
C8_FinalContent ==
  \A k \in 1..Len(calls) :
    calls[k].status = "ok" =>
      MessageOf(k).content =
        IF trim(Concat(calls[k].received)) = <<>>
        THEN <<"(No textual response)">>
        ELSE trim(Concat(calls[k].received))

\* C8, its case: a call completed after two chunks whose order matters and
\* whose concatenation trimming changes.
C8_Witness ==
  \E k \in 1..Len(calls) :
    /\ calls[k].status = "ok"
    /\ Len(calls[k].received) >= 2
    /\ calls[k].received[1] # calls[k].received[2]
    /\ MessageOf(k).content # Concat(calls[k].received)
    /\ MessageOf(k).content # <<"(No textual response)">>

\* C9: handleSend invoked while a prompt is being submitted or a transcript
\* is being processed changes nothing.
C9_HandleSendNoOp ==
  [][(lastOp'.op = "handleSend" /\ (isSubmitting \/ isProcessingTranscript))
       => UNCHANGED progVars]_vars

\* C9, its case: handleSend was invoked with text in the input while a
\* transcript was being processed and nothing was being submitted.
C9_Witness ==
  /\ lastOp = Op("handleSend", "", NoEvent, "returned")
  /\ isProcessingTranscript /\ ~isSubmitting
  /\ trim(inputText) # <<>>

DecisionCarried(action) ==
  /\ IssuedCall
  /\ calls'[Len(calls')].mcp_approval =
       [action |-> action,
        request_id |-> pendingApproval.request_id,
        tool |-> pendingApproval.tool,
        arguments |-> pendingApproval.arguments]

\* C10, as stated: handleApprovalDecision changes nothing when a prompt is
\* being submitted or no approval is pending, and otherwise issues exactly
\* one prompt request carrying the action and the pending approval's
\* request_id, tool and arguments.
C10_DecisionAlwaysIssues ==
  [][lastOp'.op = "handleApprovalDecision"
       => IF isSubmitting \/ pendingApproval = NoApproval
          THEN UNCHANGED progVars
          ELSE DecisionCarried(lastOp'.arg)]_vars

\* C10: handleApprovalDecision changes nothing when a prompt is being
\* submitted or no approval is pending; otherwise, with a model selected, it
\* issues exactly one prompt request carrying the action and the pending
\* approval's request_id, tool and arguments, and with no model selected it
\* sets the error and issues no request.
C10_DecisionIssuesWithModel ==
  [][lastOp'.op = "handleApprovalDecision"
       => IF isSubmitting \/ pendingApproval = NoApproval
          THEN UNCHANGED progVars
          ELSE IF selectedModel = NoModel
          THEN NoRequestIssued /\ error' = ErrSelectModel
          ELSE DecisionCarried(lastOp'.arg)]_vars

\* C10, its case: a decision on a pending approval with a request_id was
\* sent and the request carries it.
C10_Witness ==
  /\ lastOp.op = "handleApprovalDecision"
  /\ lastOp.out = "started"
  /\ LastCall.mcp_approval.action = lastOp.arg
  /\ LastCall.mcp_approval.request_id \in RequestIds
  /\ LastCall.mcp_approval.tool = "t1"

\* C11: in a step in which a prompt call fails, the placeholder of that call
\* becomes "Error: <message>" with isError true and isStreaming false, the
\* error field holds that message, and every other message is unchanged.
C11_FailureMarksPlaceholder ==
  [][\A k \in 1..Len(calls) :
       (calls[k].status = "running" /\ calls'[k].status = "failed") =>
         /\ error' # NoError
         /\ Len(messages') = Len(messages)
         /\ \A i \in 1..Len(messages) :
              messages'[i] =
                IF messages[i].id = calls[k].messageId
                THEN [messages[i] EXCEPT !.content = <<"Error: ">> \o error',
                                         !.isStreaming = FALSE,
                                         !.isError = TRUE]
                ELSE messages[i]]_vars

\* C11, its case: a call failed after it had received text, in a log that
\* holds other messages.
C11_Witness ==
  \E k \in 1..Len(calls) :
    /\ calls[k].status = "failed"
    /\ calls[k].received # <<>>
    /\ MessageOf(k).isError /\ ~MessageOf(k).isStreaming
    /\ MessageOf(k).content = <<"Error: ">> \o error
    /\ Len(messages) >= 3

\* C15: the result of a path normaliser is left unchanged by the same
\* normaliser, for normalizePath and for normalizeScopePath.
C15_NormalizeIdempotent ==
  /\ (probe.fn = "normalizePath" /\ probe.done)
       => normalizePath(probe.result) = probe.result
  /\ (probe.fn = "normalizeScopePath" /\ probe.done)
       => normalizeScopePath(probe.result) = probe.result

DefaultsApplied == lastOp' = Op("initialize", "", NoEvent, "loaded")

ConfiguredDefault == parseConfiguredDefaultModelKey(configuredDefault)

\* The reference rule: entry i of the catalog matches the configured default.
ReferenceMatch(catalog, i) ==
  /\ toLowerCase(catalog[i].provider) = toLowerCase(ConfiguredDefault.provider)
  /\ toLowerCase(catalog[i].name) = toLowerCase(ConfiguredDefault.modelName)
  /\ \/ ConfiguredDefault.serverId = <<>>
     \/ toLowerCase(catalog[i].serverId)
          = toLowerCase(ConfiguredDefault.serverId)

\* C13: after the defaults are applied to a loaded catalog, with a default
\* configured (provider and model name, server optional), the selected model
\* is the first entry matching it case-insensitively, or the first entry
\* when none matches; with an empty catalog it is null.
C13_DefaultModelResolution ==
  [][DefaultsApplied =>
       IF models' = <<>>
       THEN selectedModel' = NoModel
       ELSE ConfiguredDefault # NoParsedDefault =>
              \/ \E i \in 1..Len(models') :
                   /\ ReferenceMatch(models', i)
                   /\ \A j \in 1..(i - 1) : ~ReferenceMatch(models', j)
                   /\ selectedModel' = models'[i]
              \/ /\ \A i \in 1..Len(models') : ~ReferenceMatch(models', i)
                 /\ selectedModel' = models'[1]]_vars

\* C13, its case: the default given by key matched the second entry of the
\* catalog, which differs from the key in case.
C13_Witness ==
  /\ lastOp = Op("initialize", "", NoEvent, "loaded")
  /\ ConfiguredDefault.serverId = <<"s2">>
  /\ Len(models) = 2
  /\ selectedModel = models[2]
  /\ selectedModel # models[1]
  /\ selectedModel.provider # ConfiguredDefault.provider

\* C14: after the defaults are applied to a non-empty loaded catalog with no
\* default configured, the selected model is the first catalog entry.
C14_NoDefaultSelectsFirst ==
  [][(DefaultsApplied /\ ConfiguredDefault = NoParsedDefault /\ models' # <<>>)
       => selectedModel' = models'[1]]_vars

SelectedScope == getSelectedScopeOption(scopeOptions, selectedScopePath)

\* C12: whenever scope is enabled, the selected path resolves to an entry
\* of the loaded scope options, and a request built in that state has scope
\* mode "project" and carries that entry's path verbatim as its project
\* slug.
C12_EnabledScopeResolves ==
  scopeEnabled =>
    /\ SelectedScope # 0
    /\ LET params == buildMcpParams(scopeOptions, scopeEnabled,
                                    selectedScopePath)
       IN /\ params.mcp_scope_mode = "project"
          /\ params.mcp_project_slug = scopeOptions[SelectedScope].path

ConfiguredScopePath == getNormalizedDefaultScopePath(scopeDefault)
ConfiguredScopeRoot == getNormalizedDefaultScopeRoot(scopeDefault)
ConfiguredScopeSlug == getNormalizedDefaultProjectSlug(scopeDefault)

\* The reference rule: option i matches the configured path, or the
\* configured slug within the configured root.
ReferencePathMatch(options, i) ==
  /\ ConfiguredScopePath # <<>>
  /\ toLowerCase(normalizePath(options[i].path))
       = toLowerCase(ConfiguredScopePath)

ReferenceSlugMatch(options, i) ==
  /\ ConfiguredScopeSlug # <<>>
  /\ toLowerCase(options[i].slug) = toLowerCase(ConfiguredScopeSlug)
  /\ ConfiguredScopeRoot \in {"", options[i].scope_root}

\* Option i is the first of the options that satisfies Match.
FirstPathMatch(options, i) ==
  /\ ReferencePathMatch(options, i)
  /\ \A j \in 1..(i - 1) : ~ReferencePathMatch(options, j)

FirstSlugMatch(options, i) ==
  /\ ReferenceSlugMatch(options, i)
  /\ \A j \in 1..(i - 1) : ~ReferenceSlugMatch(options, j)

\* C16: when the configured scope default is applied with scope enabled by
\* configuration, the first option whose normalized path equals the
\* configured path case-insensitively is selected; only if no path matches,
\* the first option matching the configured slug case-insensitively within
\* the configured root, when one is given; if neither matches scope is
\* disabled, the selected path is null and no error is raised.
C16_ConfiguredScopeResolution ==
  [][(DefaultsApplied /\ scopeDefault.enabled) =>
       /\ error' = error
       /\ \/ \E i \in 1..Len(scopeOptions') :
               /\ FirstPathMatch(scopeOptions', i)
               /\ scopeEnabled'
               /\ selectedScopePath' = normalizePath(scopeOptions'[i].path)
          \/ /\ \A i \in 1..Len(scopeOptions') :
                   ~ReferencePathMatch(scopeOptions', i)
             /\ \E i \in 1..Len(scopeOptions') :
                   /\ FirstSlugMatch(scopeOptions', i)
                   /\ scopeEnabled'
                   /\ selectedScopePath' = normalizePath(scopeOptions'[i].path)
          \/ /\ \A i \in 1..Len(scopeOptions') :
                   /\ ~ReferencePathMatch(scopeOptions', i)
                   /\ ~ReferenceSlugMatch(scopeOptions', i)
             /\ ~scopeEnabled'
             /\ selectedScopePath' = <<>>]_vars

\* C16, its case: no option has the configured path, the configured slug
\* is that of a life option and of a project option, and the configured
\* root made the project option, the later of the two, the selected one.
C16_Witness ==
  /\ lastOp = Op("initialize", "", NoEvent, "loaded")
  /\ scopeDefault.enabled
  /\ ConfiguredScopeRoot = "projects"
  /\ \A i \in 1..Len(scopeOptions) : ~ReferencePathMatch(scopeOptions, i)
  /\ scopeEnabled
  /\ SelectedScope > 1
  /\ scopeOptions[SelectedScope].scope_root = "projects"
  /\ scopeOptions[1].slug = scopeOptions[SelectedScope].slug

\* The entries of the parsed page that take part in the match: none
\* matches.
NoTargetMatches ==
  LET requested == normalizeToken(save.options.moduleId)
  IN /\ \A n \in 1..Len(save.content.modules) :
          ~moduleDefinitionMatchesCaptureTarget(save.content.modules[n].key,
             save.content.modules[n], requested)
     /\ \A n \in 1..Len(save.content.layouts) :
          ~layoutItemMatchesCaptureTarget(save.content.layouts[n], requested)

\* C17: once the page is parsed, a call with no matching module definition
\* or layout item has failed with the "could not locate" error and issued
\* no PUT; a call that succeeded issued exactly one GET and then exactly
\* one PUT and returns updated_targets of at least 1; and no call issues a
\* PUT before its GET or more than one.
C17_SaveAllOrNothing ==
  /\ save.puts <= save.gets
  /\ save.puts <= 1
  /\ (save.parsed /\ NoTargetMatches) =>
       /\ save.phase = "failed"
       /\ save.error = ErrLocate
       /\ save.puts = 0
  /\ save.phase = "done" =>
       /\ save.gets = 1
       /\ save.puts = 1
       /\ save.updated_targets >= 1
       /\ ~NoTargetMatches

\* C17, its case: a call succeeded after writing a module definition and a
\* layout item.
C17_Witness ==
  /\ save.phase = "done"
  /\ save.updated_targets = 2
  /\ \E n \in 1..Len(save.put.modules) :
       save.put.modules[n].config # save.content.modules[n].config
  /\ \E n \in 1..Len(save.put.layouts) :
       save.put.layouts[n].args # save.content.layouts[n].args

\* The request names no module of its own: none was requested, or the name
\* requested is that of the capture module.
NoSpecificModuleRequested ==
  \/ trim(save.options.moduleId) = <<>>
  \/ includes(compactToken(save.options.moduleId), <<"library", "capture">>)

WrittenConfig == buildDefaultModelConfig(save.options.selectedModel)

ModuleWritten(n) ==
  /\ save.phase \in {"put", "done"}
  /\ save.put.modules[n].config.default_model_key
       = WrittenConfig.default_model_key

LayoutWritten(n) ==
  /\ save.phase \in {"put", "done"}
  /\ save.put.layouts[n].args.default_model_key
       = WrittenConfig.default_model_key

\* C18: when no specific module is requested, every module definition and
\* layout item of the parsed page whose plugin identifier is the library
\* plugin's slug, or whose id or name looks like the capture module, is
\* written.
C18_PluginEntriesAreTargets ==
  (save.parsed /\ NoSpecificModuleRequested) =>
    /\ \A n \in 1..Len(save.content.modules) :
         LET entry == save.content.modules[n]
         IN (\/ normalizeToken(entry.pluginId)
                  = normalizeToken(LIBRARY_PLUGIN_SLUG)
             \/ looksLikeCaptureToken(entry.moduleId)
             \/ looksLikeCaptureToken(entry.moduleName)
             \/ looksLikeCaptureToken(entry.key))
              => ModuleWritten(n)
    /\ \A n \in 1..Len(save.content.layouts) :
         LET entry == save.content.layouts[n]
         IN (\/ normalizeToken(entry.pluginId)
                  = normalizeToken(LIBRARY_PLUGIN_SLUG)
             \/ looksLikeCaptureToken(entry.moduleId)
             \/ looksLikeCaptureToken(entry.moduleName)
             \/ looksLikeCaptureToken(entry.i)
             \/ normalizeToken(entry.displayName)
                  = <<"library", " ", "capture">>)
              => LayoutWritten(n)

IsMetadataRecord(rec) == rec.kind = "json" /\ rec.event.type \in MetadataTypes

\* C19: a record whose type is one of the ten metadata types is handed to
\* the metadata-event callback and adds no text chunk; the [DONE] record
\* reaches no callback; and a text chunk is only ever added by a JSON
\* record that is not of a metadata type, which reaches the chunk callback
\* and not the metadata one.
C19_RecordRouting ==
  [][\A k \in 1..Len(calls), rec \in FrameRecords :
       frameDelivers(k, <<rec>>) =>
         LET handled == handleMetadataEvent(CallbackState, rec.event)
         IN /\ IsMetadataRecord(rec) =>
                 /\ calls'[k].received = calls[k].received
                 /\ activityStatus' = handled.activityStatus
                 /\ messages' = handled.messages
            /\ rec.kind = "done" => UNCHANGED callbackVars
            /\ calls'[k].received # calls[k].received =>
                 /\ rec.kind = "json"
                 /\ rec.event.type \notin MetadataTypes
                 /\ calls'[k].received = Append(calls[k].received, rec.text)
                 /\ pendingApproval' = pendingApproval]_vars

\* C19, its case: a frame whose only record is a tool_call event that
\* carries text was delivered: the status names the tool and the call has
\* received no chunk.
C19_Witness ==
  /\ probe.done
  /\ Len(probe.arg) = 1
  /\ IsMetadataRecord(probe.arg[1])
  /\ probe.arg[1].text # <<>>
  /\ activityStatus = <<"Running tool: ", "x", "...">>
  /\ \E k \in 1..Len(calls) :
       calls[k].records = 1 /\ calls[k].received = <<>>

IsJsonRecord(rec) == rec.kind = "json"

\* The texts the records of a frame hand to the chunk callback, in order.
RECURSIVE ChunksOf(_)
ChunksOf(frame) ==
  IF frame = <<>> THEN <<>>
  ELSE (IF IsJsonRecord(Head(frame)) /\ ~IsMetadataRecord(Head(frame))
           /\ Head(frame).text # <<>>
        THEN <<Head(frame).text>> ELSE <<>>) \o ChunksOf(Tail(frame))

\* C20: a frame with records that are not JSON leaves the call running
\* and raises no error, and its other records reach their callbacks in
\* order, exactly as if the records that are not JSON were not there.
\* (The frame of a frameDelivers step is the one probe holds after it.)
C20_MalformedRecordDropped ==
  [][\A k \in 1..Len(calls) :
       LET frame == probe'.arg
           wellFormed == SelectSeq(frame, IsJsonRecord)
       IN frameDelivers(k, frame) =>
            /\ calls'[k].status = "running"
            /\ error' = error
            /\ calls'[k].received = calls[k].received \o ChunksOf(frame)
            /\ SetCallbackState(
                 countRecords(forEachLine(CallbackState, k, wellFormed), k,
                              frameWeight(wellFormed)))]_vars

\* C20, its case: a call completed successfully after a frame with a
\* record that is not JSON between two text records, and received both
\* texts in order.
C20_Witness ==
  /\ probe.done
  /\ Len(probe.arg) = 3
  /\ probe.arg[2].kind = "malformed"
  /\ \E k \in 1..Len(calls) :
       /\ calls[k].status = "ok"
       /\ calls[k].received = <<probe.arg[1].text, probe.arg[3].text>>
       /\ calls[k].received = <<<<"a">>, <<"b">>>>
       /\ MessageOf(k).content = <<"a", "b">>
       /\ ~MessageOf(k).isError

\* C21: a prompt call started with no known conversation id invokes the
\* conversation-id callback at most once, however many of its records
\* carry an id.
C21_ConversationIdCallbackOnce ==
  \A k \in 1..Len(calls) :
    calls[k].conversationId = "" => calls[k].idCallbacks <= 1

\* C22: a single-shot call whose response arrived has failed if and only
\* if no text was extracted from the response and neither its
\* approval_required nor its approval_resolution field was set; the
\* assistant message of a failed one carries the error.
C22_SingleShotFailsWithoutTextOrApproval ==
  \A k \in 1..Len(calls) :
    calls[k].response.received =>
      /\ calls[k].status \in {"ok", "failed"}
      /\ calls[k].status = "failed"
           <=> /\ ~calls[k].response.text
               /\ ~calls[k].response.approval_required
               /\ ~calls[k].response.approval_resolution
      /\ calls[k].status = "failed"
           => /\ MessageOf(k).isError
              /\ MessageOf(k).content = <<"Error: ">> \o ErrNoText

\* C22, its case: a response with an approval and no text completed its
\* call successfully.
C22_Witness ==
  \E k \in 1..Len(calls) :
    /\ calls[k].response.received
    /\ ~calls[k].response.text
    /\ calls[k].response.approval_required
    /\ calls[k].status = "ok"
    /\ pendingApproval # NoApproval

----------------------------------------------------------------------------
(* handleTranscriptSelected: the prompt built from the text that            *)
(* processDocument extracted.  Here a text is a sequence of single          *)
(* characters, so that Len is text.length.                                  *)

TranscriptLimit == 12000
MaxPad == 2

TruncationMarker == <<"\n\n[TRUNCATED]">>
TranscriptContentHeader == <<"Transcript content:">>

\* A truncation that cuts the text as extracted and trims it afterwards:
\* the variant the truncation property must tell apart from truncatedText.
truncateUntrimmed(extracted) ==
  IF Len(extracted) > TranscriptLimit
  THEN trim(SubSeq(extracted, 1, TranscriptLimit)) \o TruncationMarker
  ELSE trim(extracted)

\* const text = String(extracted_text || "").trim(); truncatedText.
truncatedText(extracted) ==
  LET text == trim(extracted)
  IN IF Len(text) > TranscriptLimit
     THEN SubSeq(text, 1, TranscriptLimit) \o TruncationMarker
     ELSE text

\* The prompt handed to sendPrompt; <<>> when the handler throws because
\* the trimmed text is empty.
transcriptPrompt(extracted) ==
  IF trim(extracted) = <<>> THEN <<>>
  ELSE TranscriptPrompt \o TranscriptContentHeader \o truncatedText(extracted)

\* Extracted texts: lead blanks, n characters and trail blanks, where the
\* characters are "a" but for the one at the limit, which is mark, and the
\* last, which is "b".
TranscriptText(lead, n, trail, mark) ==
  [i \in 1..(lead + n + trail) |->
     IF i <= lead \/ i > lead + n THEN " "
     ELSE IF i = lead + n THEN "b"
     ELSE IF i = lead + TranscriptLimit THEN mark
     ELSE "a"]

TranscriptLengths ==
  {0, 1, TranscriptLimit - 1, TranscriptLimit, TranscriptLimit + 1,
   TranscriptLimit + 2}

TranscriptTexts ==
  {TranscriptText(lead, n, trail, mark) :
     lead \in 0..MaxPad, n \in TranscriptLengths, trail \in 0..MaxPad,
     mark \in {"a", " "}}

InitTranscript ==
  /\ useStreaming = TRUE
  /\ workLimit = 0
  /\ probe \in {Probe("transcriptPrompt", text) : text \in TranscriptTexts}
  /\ save = NoSave
  /\ configuredDefault = NoDefaultProps
  /\ scopeDefault = NoScopeProps
  /\ lockProjectScope = FALSE
  /\ initRuns = NoInitRuns
  /\ Constructed

transcriptPromptBuilt ==
  /\ probe.fn = "transcriptPrompt" /\ ~probe.done
  /\ probe' = [probe EXCEPT !.result = transcriptPrompt(probe.arg),
                            !.done = TRUE]
  /\ UNCHANGED <<useStreaming, configuredDefault, scopeDefault, workLimit,
                 toastVars, loads, lockProjectScope, editor,
                 save, modelVars, inputText, flagVars, callbackVars,
                 activeAbortController, uploadVars, lastOp>>

NextTranscript == transcriptPromptBuilt

SpecTranscript == InitTranscript /\ [][NextTranscript]_vars

\* The part of a built prompt after its header lines.
PromptBody(prompt) ==
  SubSeq(prompt, Len(TranscriptPrompt \o TranscriptContentHeader) + 1,
         Len(prompt))

\* C23: the body of the prompt built from a non-empty trimmed text of n
\* characters is that text when n <= 12,000, and otherwise its first
\* 12,000 characters followed by the truncation marker and nothing else.
C23_TranscriptTruncation ==
  (probe.fn = "transcriptPrompt" /\ probe.done /\ trim(probe.arg) # <<>>)
    => LET text == trim(probe.arg)
           body == PromptBody(probe.result)
       IN IF Len(text) <= TranscriptLimit
          THEN body = text
          ELSE /\ Len(body) = TranscriptLimit + 1
               /\ \A i \in 1..TranscriptLimit : body[i] = text[i]
               /\ body[TranscriptLimit + 1] = TruncationMarker[1]

\* C23, its case: a text longer than the limit even after trimming, with a
\* blank as its 12,000th character, was cut.
C23_Witness ==
  /\ probe.fn = "transcriptPrompt" /\ probe.done
  /\ Len(trim(probe.arg)) > TranscriptLimit
  /\ trim(probe.arg)[TranscriptLimit] = " "
  /\ Len(probe.arg) > Len(trim(probe.arg))
  /\ PromptBody(probe.result)[TranscriptLimit + 1] = TruncationMarker[1]

\* C24: when processDocument returns a text that is empty once trimmed,
\* the rest of handleTranscriptSelected issues no prompt request, appends
\* one system error message, sets transcriptError and leaves
\* isProcessingTranscript false.
C24_EmptyTranscriptFails ==
  [][(lastOp'.op = "transcriptProcessed" /\ lastOp'.arg = "empty")
       => /\ calls' = calls
          /\ Len(messages') = Len(messages) + 1
          /\ SubSeq(messages', 1, Len(messages)) = messages
          /\ messages'[Len(messages')].sender = "system"
          /\ messages'[Len(messages')].isError
          /\ messages'[Len(messages')].content
               = <<"Transcript upload failed: ">> \o ErrNoTranscript
          /\ transcriptError' = ErrNoTranscript
          /\ ~isProcessingTranscript']_vars

\* C24, its case: an upload whose extracted text was empty has just been
\* handled, with a model selected so that a prompt could have been sent.
C24_Witness ==
  /\ lastOp.op = "transcriptProcessed" /\ lastOp.arg = "empty"
  /\ selectedModel # NoModel
  /\ transcriptError = ErrNoTranscript
  /\ ~isProcessingTranscript

----------------------------------------------------------------------------
(* The "Set Default" button and the status toast: the handler            *)
(* saveSelectedModelAsPageDefault, the service call it awaits, and the      *)
(* timer that clears defaultModelStatus.                                    *)

StatusSelectModel == <<"Select a model first.">>
StatusNoPage ==
  <<"Page context is unavailable; cannot save page default model.">>
StatusSaved(model) ==
  <<"Saved ">> \o model.name \o <<" as the default model for this page.">>

\* What getCurrentPageContext returns: a pageId that is a string, or one
\* that is truthy without being a string.
PageContexts ==
  {[pageId |-> <<"p", "-", "1">>, isString |-> TRUE],
   [pageId |-> <<"5">>, isString |-> FALSE]}

\* The button is rendered enabled (its lock and its "already the default"
\* conditions left aside) and clicked: saveSelectedModelAsPageDefault up to
\* its await.
saveSelectedModelAsPageDefault(pageContext) ==
  /\ ~modelsLoading /\ ~isSubmitting /\ ~isSavingDefaultModel
  /\ selectedModel # NoModel /\ pageContext.pageId # <<>>
  /\ saves < MaxSaves
  /\ saves' = saves + 1
  /\ LET pageId == IF pageContext.isString THEN pageContext.pageId ELSE <<>>
     IN IF selectedModel = NoModel
        THEN /\ setDefaultModelStatus(StatusSelectModel)
             /\ UNCHANGED <<isSavingDefaultModel, save>>
        ELSE IF pageId = <<>>
        THEN /\ setDefaultModelStatus(StatusNoPage)
             /\ UNCHANGED <<isSavingDefaultModel, save>>
        ELSE /\ isSavingDefaultModel' = TRUE
             /\ setDefaultModelStatus(NoStatus)
             /\ save' = Save("called",
                             SaveOptions("full", pageId, <<>>, selectedModel))
  /\ UNCHANGED <<useStreaming, configuredDefault, scopeDefault, workLimit,
                 loads, lockProjectScope, editor, probe, modelVars, inputText, flagVars, callbackVars,
                 activeAbortController, uploadVars, lastOp>>

\* saveCaptureDefaultModelForPage returned or threw: the rest of the
\* handler.
saveSettled ==
  /\ isSavingDefaultModel
  /\ save.phase \in {"done", "failed"}
  /\ isSavingDefaultModel' = FALSE
  /\ setDefaultModelStatus(IF save.phase = "done"
                           THEN StatusSaved(save.options.selectedModel)
                           ELSE save.error)
  /\ UNCHANGED <<useStreaming, configuredDefault, scopeDefault, workLimit,
                 loads, lockProjectScope, editor, probe, save, saves, modelVars, inputText, flagVars,
                 callbackVars, activeAbortController, uploadVars, lastOp>>

\* The 5000 ms of timer t are over: its callback drops the handle and
\* clears the status, and componentDidUpdate finds nothing to reset.
timerFires(t) ==
  /\ t \in timers
  /\ timers' = timers \ {t}
  /\ defaultModelStatusTimeout' = 0
  /\ defaultModelStatus' = NoStatus
  /\ UNCHANGED <<useStreaming, configuredDefault, scopeDefault, workLimit,
                 loads, lockProjectScope, editor, probe, save, isSavingDefaultModel, saves, modelVars,
                 inputText, flagVars, callbackVars, activeAbortController,
                 uploadVars, lastOp>>

InitToast ==
  /\ useStreaming = TRUE
  /\ workLimit = 0
  /\ probe = NoProbe
  /\ save = NoSave
  /\ configuredDefault = NoDefaultProps
  /\ scopeDefault = NoScopeProps
  /\ lockProjectScope = FALSE
  /\ initRuns = NoInitRuns
  /\ Constructed

NextToast ==
  \/ \E catalog \in Catalogs : initializeLoaded(catalog, <<>>, <<>>)
  \/ \E value \in ModelIds : handleModelSelection(value)
  \/ \E pageContext \in PageContexts :
       saveSelectedModelAsPageDefault(pageContext)
  \/ saveStarted
  \/ \E response \in PageResponses : pageReturned(response)
  \/ requestRejected
  \/ putReturned
  \/ saveSettled
  \/ \E t \in timers : timerFires(t)

\* A timer that was set and is not cleared fires.
SpecToast ==
  /\ InitToast
  /\ [][NextToast]_vars
  /\ WF_vars(\E t \in timers : timerFires(t))

\* C25: at most one status timer is live, and it is the one held while a
\* status is shown; every step that leaves a non-null status other than
\* the one it found leaves a timer that was started by it, alone; and a
\* non-null status is eventually cleared.
C25_SingleStatusTimer ==
  /\ [](/\ Cardinality(timers) <= 1
        /\ defaultModelStatus # NoStatus
             => timers = {defaultModelStatusTimeout})
  /\ [][(defaultModelStatus' # NoStatus
          /\ defaultModelStatus' # defaultModelStatus)
         => /\ defaultModelStatusTimeout'
                \notin timers \cup {0, defaultModelStatusTimeout}
            /\ timers' = {defaultModelStatusTimeout'}]_vars
  /\ (defaultModelStatus # NoStatus ~> defaultModelStatus = NoStatus)

\* C25, its case: a status replaced another while that one's timer was
\* live, and the timer now held is the one started for it.
C25_Witness ==
  /\ defaultModelStatus = StatusNoPage
  /\ defaultModelStatusTimeout = 2
  /\ timers = {2}

----------------------------------------------------------------------------
(* initialize(), load by load: loadModels, loadProjectScopes and            *)
(* loadLifeScopes are started together and Promise.all joins them.          *)

LIBRARY_LIFE_ENDPOINT_CANDIDATES ==
  <<"life", "projects?path=life", "projects?scope=life">>

LifeLists == {loaded.life : loaded \in ScopesLists}
ProjectLists == {loaded.projects : loaded \in ScopesLists}

settle(name, load) ==
  [loads EXCEPT ![name] = load, !.finished = Append(@, name)]

loadUnchanged ==
  UNCHANGED <<useStreaming, configuredDefault, scopeDefault, workLimit,
              toastVars, lockProjectScope, editor, probe, save, modelVars,
              inputText, flagVars, callbackVars, activeAbortController,
              uploadVars, lastOp>>

\* api.get of loadModels resolved with a catalog.
loadModelsReturned(catalog) ==
  /\ loads.models.status = "pending"
  /\ loads' = settle("models", Load("ok", catalog))
  /\ loadUnchanged

\* loadModels threw: no api, or its request was rejected.
loadModelsThrew ==
  /\ loads.models.status = "pending"
  /\ loads' = settle("models", Load("failed", <<>>))
  /\ loadUnchanged

loadProjectScopesReturned(values) ==
  /\ loads.projects.status = "pending"
  /\ loads' = settle("projects", Load("ok", values))
  /\ loadUnchanged

loadProjectScopesThrew ==
  /\ loads.projects.status = "pending"
  /\ loads' = settle("projects", Load("failed", <<>>))
  /\ loadUnchanged

\* The request to the next endpoint candidate of loadLifeScopes was
\* answered: rejected ("failed"), or resolved with a list of values.  The
\* loop returns a list that is not empty, goes on to the next candidate
\* otherwise, and returns [] after the last.
loadLifeScopesAnswered(answer, values) ==
  /\ loads.life.status = "pending"
  /\ Len(loads.requests) < Len(LIBRARY_LIFE_ENDPOINT_CANDIDATES)
  /\ answer = "failed" => values = <<>>
  /\ LET outcome == IF answer = "failed" THEN "failed"
                    ELSE IF values = <<>> THEN "empty" ELSE "values"
         asked == [loads EXCEPT !.requests = Append(@, outcome)]
     IN loads' =
          IF outcome = "values"
          THEN [asked EXCEPT !.life = Load("ok", values),
                             !.finished = Append(@, "life")]
          ELSE IF Len(asked.requests) = Len(LIBRARY_LIFE_ENDPOINT_CANDIDATES)
          THEN [asked EXCEPT !.life = Load("ok", <<>>),
                             !.finished = Append(@, "life")]
          ELSE asked
  /\ loadUnchanged

\* A join that waits for the model catalog only: the variant the join
\* property must tell apart from allLoaded.
modelsLoaded(ls) == ls.models.status = "ok"

\* await Promise.all([...]) resolves: each of its promises resolved.
allLoaded(ls) ==
  /\ ls.models.status = "ok"
  /\ ls.projects.status = "ok"
  /\ ls.life.status = "ok"

\* await Promise.all([...]) rejects: one of its promises rejected.
oneFailed(ls) ==
  \/ ls.models.status = "failed"
  \/ ls.projects.status = "failed"
  \/ ls.life.status = "failed"

\* The rest of the try block, with what the loads returned.
initializeJoined ==
  /\ allLoaded(loads)
  /\ initializeLoaded(loads.models.value, loads.life.value,
                      loads.projects.value)

\* The catch block.
initializeCaught ==
  /\ oneFailed(loads)
  /\ initializeFailed

InitInit ==
  /\ useStreaming = TRUE
  /\ workLimit = 0
  /\ probe = NoProbe
  /\ save = NoSave
  /\ configuredDefault = NoDefaultProps
  /\ scopeDefault \in ScopesConfigured
  /\ lockProjectScope = FALSE
  /\ initRuns = NoInitRuns
  /\ Constructed

NextInit ==
  \/ \E catalog \in Catalogs : loadModelsReturned(catalog)
  \/ loadModelsThrew
  \/ \E values \in ProjectLists : loadProjectScopesReturned(values)
  \/ loadProjectScopesThrew
  \/ \E answer \in {"failed", "ok"}, values \in LifeLists :
       loadLifeScopesAnswered(answer, values)
  \/ initializeJoined
  \/ initializeCaught

SpecInit == InitInit /\ [][NextInit]_vars

LoadNames == {"models", "projects", "life"}

\* C26: the catalogs are installed and the defaults applied only by a step
\* taken when all three loads have returned, whatever order they returned
\* in, and with what they returned; once a load has thrown, no catalog is
\* installed and no default applied, and the catch block leaves the error
\* set.
C26_InitializeJoins ==
  /\ [][DefaultsApplied
          => /\ \A name \in LoadNames : loads[name].status = "ok"
             /\ models' = loads.models.value
             /\ modelsLoading /\ ~modelsLoading']_vars
  /\ []((\E name \in LoadNames : loads[name].status = "failed")
          => /\ models = <<>> /\ scopeOptions = <<>>
             /\ selectedModel = NoModel
             /\ ~scopeEnabled /\ selectedScopePath = <<>>
             /\ lastOp = OtherOp
             /\ initsPending = 0 => (error = ErrLoad /\ ~modelsLoading))

\* C26, its case: the loads returned in an order other than that of the
\* array handed to Promise.all, the model catalog last, and the defaults
\* were applied to what they returned.
C26_Witness ==
  /\ lastOp = Op("initialize", "", NoEvent, "loaded")
  /\ loads.finished = <<"life", "projects", "models">>
  /\ models # <<>> /\ selectedModel # NoModel
  /\ scopeOptions # <<>> /\ scopeEnabled

\* C27: loadLifeScopes asks an endpoint candidate only when every
\* candidate before it has failed: none is asked after one has succeeded.
C27_StopAtFirstSuccess ==
  \A i \in 1..Len(loads.requests) :
    \A j \in 1..(i - 1) : loads.requests[j] = "failed"

\* C28: a project_scope_selected event whose normalized path is not empty
\* and is, case-insensitively, the normalized path of a loaded scope option
\* leaves scope enabled with the event's normalized path selected; any
\* other project_scope_selected event leaves both as they were.
C28_ScopeSelectedEvent ==
  [][(lastOp'.op = "handleMetadataEvent"
       /\ lastOp'.ev.type = "project_scope_selected")
      => LET selectedPath == normalizePath(lastOp'.ev.scope_path)
             known ==
               \E i \in 1..Len(scopeOptions) :
                 toLowerCase(normalizePath(scopeOptions[i].path))
                   = toLowerCase(selectedPath)
         IN IF selectedPath # <<>> /\ known
            THEN scopeEnabled' /\ selectedScopePath' = selectedPath
            ELSE /\ scopeEnabled' = scopeEnabled
                 /\ selectedScopePath' = selectedScopePath]_vars

\* C28, its case: the event named a known scope in another case than the
\* option's, and its path is the one selected.
C28_Witness ==
  /\ lastOp.op = "handleMetadataEvent"
  /\ lastOp.ev.type = "project_scope_selected"
  /\ scopeEnabled
  /\ selectedScopePath = normalizePath(lastOp.ev.scope_path)
  /\ \A i \in 1..Len(scopeOptions) :
       normalizePath(scopeOptions[i].path) # selectedScopePath

\* C29: when an approval_resolution event carrying a request_id is handled
\* while an approval carrying a request_id is pending, the pending approval
\* and the status line stay as they were if the two ids differ, and no
\* approval is pending afterwards if they are equal.
C29_ResolutionMatchedById ==
  [][(/\ lastOp'.op = "handleMetadataEvent"
      /\ lastOp'.ev.type = "approval_resolution"
      /\ lastOp'.ev.request_id # ""
      /\ useStreaming
      /\ pendingApproval # NoApproval
      /\ pendingApproval.request_id # "")
      => IF pendingApproval.request_id = lastOp'.ev.request_id
         THEN pendingApproval' = NoApproval
         ELSE /\ pendingApproval' = pendingApproval
              /\ activityStatus' = activityStatus]_vars

\* C29, its case: a resolution for another request was handled and the
\* approval is still pending.
C29_Witness ==
  /\ lastOp.op = "handleMetadataEvent"
  /\ lastOp.ev.type = "approval_resolution"
  /\ lastOp.ev.request_id # ""
  /\ pendingApproval # NoApproval
  /\ pendingApproval.request_id # ""
  /\ pendingApproval.request_id # lastOp.ev.request_id

\* C30: once the prompt call that created an assistant message has ended,
\* the message is no longer streaming and no step changes it, whatever
\* chunks, metadata events and prompt calls come later.
C30_FinishedMessageImmutable ==
  [][\A k \in 1..Len(calls) :
       calls[k].status # "running"
         => \E i \in 1..Len(messages) :
              /\ messages[i].id = calls[k].messageId
              /\ ~messages[i].isStreaming
              /\ messages'[i] = messages[i]]_vars

\* C30, its case: a call has ended with its text, and a later call has
\* received text of its own since.
C30_Witness ==
  \E k \in 1..Len(calls) :
    /\ calls[k].status = "ok"
    /\ calls[k].hasReceivedChunk
    /\ \E j \in (k + 1)..Len(calls) :
         /\ calls[j].hasReceivedChunk
         /\ MessageOf(j).content # MessageOf(k).content

----------------------------------------------------------------------------
(* The LibraryEditor component: the folder navigator and the file editor.   *)
(* One action is one handler run up to its await; the answers of listTree,  *)
(* readFile and saveFile are separate actions.                              *)

\* Requests the editor issues in one run (SpecEditor).
MaxEditorWork == 3

\* String.prototype.split and Array.prototype.join on one separator.
RECURSIVE split(_, _)
split(s, c) ==
  LET i == indexOf(s, c, 0)
  IN IF i = 0 THEN <<s>>
     ELSE <<SubSeq(s, 1, i - 1)>> \o split(SubSeq(s, i + 1, Len(s)), c)

RECURSIVE join(_, _)
join(parts, c) ==
  IF parts = <<>> THEN <<>>
  ELSE IF Len(parts) = 1 THEN parts[1]
       ELSE parts[1] \o <<c>> \o join(Tail(parts), c)

\* Array.prototype.pop, as the array it leaves.
popped(parts) == SubSeq(parts, 1, Len(parts) - 1)

\* The path without its last segment, the path taken as it is given.
relativeParentUncleaned(path) == join(popped(split(path, "/")), "/")

\* relativeParent: the path is cleaned (runs of backslashes become a slash,
\* leading and trailing slashes go) and loses its last segment.
relativeParent(path) ==
  LET cleaned == dropTrailing(dropLeading(replaceBackslashes(path), "/"), "/")
  IN IF cleaned = <<>> THEN <<>> ELSE join(popped(split(cleaned, "/")), "/")

\* The folder paths the backend answers with, in response.path and in the
\* path of a directory item: clean ones, and ones with a leading slash, a
\* backslash, and the slash alone.
TreePaths ==
  {<<>>, <<"a">>, <<"a", "/", "b">>, <<"/", "a", "/", "b">>,
   <<"a", "\\", "b">>, <<"/">>}

TreeItem(path, type, supported) ==
  [path |-> path, type |-> type, supported |-> supported]

\* The listings the backend answers with: an empty folder, and folders with
\* a directory, a file the editor supports and one it does not.
TreeListings ==
  {<<>>,
   <<TreeItem(<<"a">>, "directory", TRUE),
     TreeItem(<<"n", ".md">>, "file", TRUE),
     TreeItem(<<"n", ".bin">>, "file", FALSE)>>,
   <<TreeItem(<<"a", "\\", "b">>, "directory", TRUE),
     TreeItem(<<"n", ".md">>, "file", TRUE)>>}

\* The file contents the backend answers with and the user types.
FileContents == {<<>>, <<"x">>, <<"y">>}

\* A listTree request in flight: the path asked for, and whether saveFile
\* awaits it (its loadTree(currentPath) after a successful save).
TreeRequest(path, forSave) == [path |-> path, forSave |-> forSave]

\* A saveFile request in flight: what saveFile read from the state when it
\* started.
SaveRequest(selectedFilePath, fileContent, currentPath) ==
  [selectedFilePath |-> selectedFilePath, fileContent |-> fileContent,
   currentPath |-> currentPath]

Without(seq, i) == SubSeq(seq, 1, i - 1) \o SubSeq(seq, i + 1, Len(seq))

\* Everything but the editor.
panelUnchanged ==
  UNCHANGED <<useStreaming, configuredDefault, scopeDefault, workLimit,
              probe, save, toastVars, loads, lockProjectScope, modelVars,
              inputText, flagVars, callbackVars, activeAbortController,
              uploadVars, lastOp>>

getHasUnsavedChanges(e) == e.isEditing /\ e.fileContent # e.originalContent

\* loadTree up to its await, called by the handler op.
loadTree(e, path, forSave, op) ==
  [e EXCEPT !.treeLoading = TRUE, !.treeError = FALSE,
            !.trees = Append(@, TreeRequest(path, forSave)),
            !.op = op, !.requested = path, !.work = @ + 1]

\* openFile up to its await; discard is the answer to window.confirm, asked
\* when there are unsaved changes.
openFile(e, path, discard, op) ==
  IF getHasUnsavedChanges(e) /\ ~discard
  THEN [e EXCEPT !.op = op]
  ELSE [e EXCEPT !.fileLoading = TRUE, !.fileError = FALSE,
                 !.reads = Append(@, path), !.op = op, !.work = @ + 1]

editorDidMount ==
  /\ ~editor.mounted
  /\ editor' = [loadTree(editor, <<>>, FALSE, "componentDidMount")
                  EXCEPT !.mounted = TRUE]
  /\ panelUnchanged

\* componentDidUpdate: the api service changed.
editorServiceChanged ==
  /\ editor.mounted /\ editor.work < MaxEditorWork
  /\ editor' = loadTree(editor, <<>>, FALSE, "componentDidUpdate")
  /\ panelUnchanged

\* The Up button, disabled at the root and while the folder loads.
goToParent ==
  /\ editor.mounted /\ editor.work < MaxEditorWork
  /\ editor.currentPath # <<>> /\ ~editor.treeLoading
  /\ editor' = loadTree(editor, relativeParent(editor.currentPath), FALSE,
                        "goToParent")
  /\ panelUnchanged

\* The Refresh button, disabled while the folder loads.
refreshTree ==
  /\ editor.mounted /\ editor.work < MaxEditorWork
  /\ ~editor.treeLoading
  /\ editor' = loadTree(editor, editor.currentPath, FALSE, "refresh")
  /\ panelUnchanged

\* An item of the listing is clicked; the listing is shown when the folder
\* is not loading and did not fail.
handleTreeItemClick(i, discard) ==
  /\ editor.mounted /\ editor.work < MaxEditorWork
  /\ ~editor.treeLoading /\ ~editor.treeError
  /\ i \in 1..Len(editor.items)
  /\ LET item == editor.items[i]
     IN editor' =
          IF item.type = "directory"
          THEN loadTree(editor, item.path, FALSE, "handleTreeItemClick")
          ELSE IF ~item.supported
               THEN [editor EXCEPT !.fileError = TRUE,
                                   !.op = "handleTreeItemClick"]
               ELSE openFile(editor, item.path, discard,
                             "handleTreeItemClick")
  /\ panelUnchanged

\* The Reload button, shown for a selected file and disabled while it loads
\* or is saved.
refreshSelectedFile(discard) ==
  /\ editor.mounted /\ editor.work < MaxEditorWork
  /\ editor.selectedFilePath # <<>>
  /\ ~editor.fileLoading /\ ~editor.fileSaving
  /\ editor' = openFile(editor, editor.selectedFilePath, discard,
                        "refreshSelectedFile")
  /\ panelUnchanged

\* The Edit button, shown while not editing.
editClicked ==
  /\ editor.selectedFilePath # <<>> /\ ~editor.isEditing
  /\ ~editor.fileLoading /\ ~editor.fileSaving
  /\ editor' = [editor EXCEPT !.isEditing = TRUE, !.op = "edit"]
  /\ panelUnchanged

\* The Cancel button, shown while editing and disabled while saving.
cancelClicked ==
  /\ editor.selectedFilePath # <<>> /\ editor.isEditing
  /\ ~editor.fileSaving
  /\ editor' = [editor EXCEPT !.isEditing = FALSE,
                              !.fileContent = editor.originalContent,
                              !.op = "cancel"]
  /\ panelUnchanged

\* onChange of the textarea, rendered for a selected file that is not
\* loading while editing.
contentTyped(text) ==
  /\ editor.selectedFilePath # <<>> /\ ~editor.fileLoading
  /\ editor.isEditing
  /\ text # editor.fileContent
  /\ editor' = [editor EXCEPT !.fileContent = text, !.op = "type"]
  /\ panelUnchanged

\* The Save button, shown while editing and disabled while saving or
\* without unsaved changes: saveFile up to its await.
saveFile ==
  /\ editor.work < MaxEditorWork
  /\ editor.selectedFilePath # <<>> /\ editor.isEditing
  /\ ~editor.fileSaving /\ getHasUnsavedChanges(editor)
  /\ editor' =
       [editor EXCEPT !.fileSaving = TRUE, !.fileError = FALSE,
                      !.writes = Append(@, SaveRequest(editor.selectedFilePath,
                                                       editor.fileContent,
                                                       editor.currentPath)),
                      !.op = "saveFile", !.work = @ + 1]
  /\ panelUnchanged

\* listTree answered: loadTree stores the folder; a saveFile awaiting this
\* loadTree ends.
treeLoaded(i, path, items) ==
  /\ i \in 1..Len(editor.trees)
  /\ editor' =
       [editor EXCEPT !.currentPath = path, !.items = items,
                      !.treeLoading = FALSE,
                      !.fileSaving = IF editor.trees[i].forSave THEN FALSE
                                     ELSE @,
                      !.trees = Without(@, i), !.op = "treeLoaded"]
  /\ panelUnchanged

\* listTree failed.
treeFailed(i) ==
  /\ i \in 1..Len(editor.trees)
  /\ editor' =
       [editor EXCEPT !.treeError = TRUE, !.items = <<>>,
                      !.treeLoading = FALSE,
                      !.fileSaving = IF editor.trees[i].forSave THEN FALSE
                                     ELSE @,
                      !.trees = Without(@, i), !.op = "treeFailed"]
  /\ panelUnchanged

\* readFile answered with the file asked for: openFile stores it.
fileRead(i, content) ==
  /\ i \in 1..Len(editor.reads)
  /\ editor' =
       [editor EXCEPT !.selectedFilePath = editor.reads[i],
                      !.fileContent = content, !.originalContent = content,
                      !.isEditing = FALSE, !.fileLoading = FALSE,
                      !.reads = Without(@, i), !.op = "fileRead"]
  /\ panelUnchanged

\* readFile failed.
fileReadFailed(i) ==
  /\ i \in 1..Len(editor.reads)
  /\ editor' = [editor EXCEPT !.fileError = TRUE, !.fileLoading = FALSE,
                              !.reads = Without(@, i),
                              !.op = "fileReadFailed"]
  /\ panelUnchanged

\* saveFile answered: the content sent becomes the original content, editing
\* ends and the folder the save started in is loaded again.
fileSaved(i) ==
  /\ i \in 1..Len(editor.writes)
  /\ LET request == editor.writes[i]
         saved == [editor EXCEPT !.originalContent = request.fileContent,
                                 !.isEditing = FALSE,
                                 !.writes = Without(@, i)]
     IN editor' = [loadTree(saved, request.currentPath, TRUE, "fileSaved")
                     EXCEPT !.work = editor.work]
  /\ panelUnchanged

\* saveFile failed.
fileSaveFailed(i) ==
  /\ i \in 1..Len(editor.writes)
  /\ editor' = [editor EXCEPT !.fileError = TRUE, !.fileSaving = FALSE,
                              !.writes = Without(@, i),
                              !.op = "fileSaveFailed"]
  /\ panelUnchanged

InitEditor ==
  /\ useStreaming = TRUE
  /\ workLimit = 0
  /\ probe = NoProbe
  /\ save = NoSave
  /\ configuredDefault = NoDefaultProps
  /\ scopeDefault = NoScopeProps
  /\ lockProjectScope = FALSE
  /\ initRuns = NoInitRuns
  /\ Constructed

NextEditor ==
  \/ editorDidMount
  \/ editorServiceChanged
  \/ goToParent
  \/ refreshTree
  \/ \E i \in 1..3, discard \in BOOLEAN : handleTreeItemClick(i, discard)
  \/ \E discard \in BOOLEAN : refreshSelectedFile(discard)
  \/ editClicked
  \/ cancelClicked
  \/ \E text \in FileContents : contentTyped(text)
  \/ saveFile
  \/ \E i \in 1..MaxEditorWork, path \in TreePaths, items \in TreeListings :
       treeLoaded(i, path, items)
  \/ \E i \in 1..MaxEditorWork : treeFailed(i)
  \/ \E i \in 1..MaxEditorWork, content \in FileContents : fileRead(i, content)
  \/ \E i \in 1..MaxEditorWork : fileReadFailed(i)
  \/ \E i \in 1..MaxEditorWork : fileSaved(i)
  \/ \E i \in 1..MaxEditorWork : fileSaveFailed(i)

SpecEditor == InitEditor /\ [][NextEditor]_vars

----------------------------------------------------------------------------
(* Properties of the Library Editor.                                        *)

IsProperPrefix(p, s) == Len(p) < Len(s) /\ SubSeq(s, 1, Len(p)) = p

\* The path as the backend reads it: slashes for backslashes, none leading
\* or trailing.
CleanedPath(path) ==
  dropTrailing(dropLeading(replaceBackslashes(path), "/"), "/")

WentToParent == editor.op = "goToParent"

\* C31, as stated: going to the parent requests the root "" or a proper
\* prefix of the current path.
C31_ParentIsProperPrefix ==
  WentToParent
    => \/ editor.requested = <<>>
       \/ IsProperPrefix(editor.requested, editor.currentPath)

\* C31: going to the parent requests the root "" or a proper prefix of the
\* cleaned current path (slashes for backslashes, no leading or trailing
\* slash) that ends where a segment of it ends, and the root when the
\* cleaned current path has one segment or none; the Up button does nothing
\* at the root.
C31_ParentOfCleanedPath ==
  WentToParent
    => LET cleaned == CleanedPath(editor.currentPath)
       IN /\ editor.currentPath # <<>>
          /\ \/ editor.requested = <<>>
             \/ /\ IsProperPrefix(editor.requested, cleaned)
                /\ cleaned[Len(editor.requested) + 1] = "/"
          /\ Len(split(cleaned, "/")) <= 1 => editor.requested = <<>>

\* C31, its case: the Up button was clicked in a folder two levels down that
\* the backend named with a leading slash, and its parent is requested.
C31_Witness ==
  /\ WentToParent
  /\ editor.currentPath = <<"/", "a", "/", "b">>
  /\ editor.requested = <<"a">>
  /\ editor.trees # <<>>

\* C40: whenever the editor is not editing, the content it displays is the
\* original content, the one last loaded or saved.
C40_DisplayedIsOriginal ==
  ~editor.isEditing => editor.fileContent = editor.originalContent

----------------------------------------------------------------------------
(* Properties of the capture panel, continued.                              *)

\* C32: while a prompt request is in flight (its call awaits the response
\* and the request was not cancelled), isSubmitting is true.
C32_SubmittingWhileInFlight ==
  (\E k \in 1..Len(calls) : Outstanding(k)) => isSubmitting

\* C33: the controller of every call that awaits its response and was not
\* superseded (its controller is not aborted) is the controller held, so
\* componentWillUnmount, which aborts the controller held, reaches it.
C33_ControllerOfRequestInFlight ==
  \A k \in 1..Len(calls) :
    (Running(k) /\ ~calls[k].aborted) => activeAbortController = k

----------------------------------------------------------------------------
(* Completion of the prompt calls.  The promise of a service call settles:  *)
(* the response or the end of the stream arrives, the request fails, is     *)
(* aborted, or runs into the 120 s timeout given to api.post and            *)
(* api.postStreaming.                                                       *)

\* Prompt calls, records and uploads in the runs of SpecLive.
MaxLiveWork == 2

InitLive ==
  /\ useStreaming \in BOOLEAN
  /\ workLimit = MaxLiveWork
  /\ probe = NoProbe
  /\ save = NoSave
  /\ configuredDefault \in ConfiguredDefaults
  /\ scopeDefault = NoScopeProps
  /\ lockProjectScope = FALSE
  /\ initRuns = NoInitRuns
  /\ Constructed

\* The promise of call k settles.
settles(k) ==
  \/ streamEnds(k)
  \/ promptFails(k)
  \/ \E payload \in Payloads : singleShotResponds(k, payload)

SpecLive ==
  /\ InitLive
  /\ [][Next]_vars
  /\ \A k \in 1..MaxLiveWork : WF_vars(settles(k))

Finished(k) ==
  /\ k \in 1..Len(calls)
  /\ calls[k].status # "running"
  /\ ~isSubmitting
  /\ ~MessageOf(k).isStreaming

\* C34: every prompt call started (a sendPrompt that passed its guards)
\* eventually finishes, with isSubmitting false and its assistant
\* placeholder no longer streaming.
C34_SendPromptFinishes ==
  \A k \in 1..MaxLiveWork : Running(k) ~> Finished(k)

\* C34, its case: one call has finished as failed and another as succeeded,
\* and nothing is submitting.
C34_Witness ==
  /\ \E k \in 1..Len(calls) : calls[k].status = "failed" /\ Finished(k)
  /\ \E k \in 1..Len(calls) : calls[k].status = "ok" /\ Finished(k)

\* C35: the selected model is null or an entry of the catalog loaded.
C35_SelectedModelInCatalog ==
  \/ selectedModel = NoModel
  \/ \E i \in 1..Len(models) : models[i] = selectedModel

\* C36: pendingApproval goes from an approval to null only in a step that
\* handles an approval_resolution event; the steps that send a decision,
\* complete or fail a prompt, or fail a transcript leave it as it is.
C36_ClearedOnlyByResolution ==
  [][/\ (pendingApproval # NoApproval /\ pendingApproval' = NoApproval)
          => /\ lastOp'.op = "handleMetadataEvent"
             /\ lastOp'.ev.type = "approval_resolution"
     /\ (pendingApproval # NoApproval
         /\ lastOp'.op \in {"handleApprovalDecision", "transcriptProcessed"})
          => pendingApproval' = pendingApproval]_vars

\* C36, its case: a decision on a pending approval was sent, its call has
\* completed, and the approval is still pending.
C36_Witness ==
  /\ pendingApproval # NoApproval
  /\ \E k \in 1..Len(calls) :
       calls[k].mcp_approval # NoDecision /\ calls[k].status = "ok"

----------------------------------------------------------------------------
(* initialize() started again while earlier runs await their loads: the     *)
(* runs are followed one by one, each with what its own loads returned.     *)

\* The times the api service changes in the runs of SpecReinit.
MaxReinitWork == 2

InitReinit ==
  /\ useStreaming = TRUE
  /\ workLimit = MaxReinitWork
  /\ probe = NoProbe
  /\ save = NoSave
  /\ configuredDefault = NoDefaultProps
  /\ scopeDefault = NoScopeProps
  /\ lockProjectScope = FALSE
  /\ initRuns = InitRuns({1}, {})
  /\ Constructed

NextReinit ==
  \/ apiServiceChanged
  \/ \E catalog \in Catalogs, loaded \in ScopesLists :
       initializeLoaded(catalog, loaded.life, loaded.projects)
  \/ initializeFailed

SpecReinit == InitReinit /\ [][NextReinit]_vars

\* C37: once no initialize() is in flight, the catalog and the scope options
\* stored are those loaded by the run started last, if its loads succeeded.
C37_LatestRunInstalled ==
  \A l \in initRuns.loaded :
    (initRuns.pending = {} /\ l.run = initsStarted)
      => models = l.models /\ scopeOptions = l.scopeOptions

\* C38: a prompt request carries as conversation_id the conversation id the
\* panel holds when the request is issued: the id established, and null
\* ("") before any id is known; an id established is never dropped.
C38_RequestCarriesConversationId ==
  [][/\ IssuedCall => calls'[Len(calls')].conversationId = conversationId
     /\ conversationId # "" => conversationId' # ""]_vars

\* C38, its case: a first request was issued without an id, an id arrived,
\* and a later request was issued with it.
C38_Witness ==
  /\ Len(calls) >= 2
  /\ calls[1].conversationId = ""
  /\ conversationId # ""
  /\ calls[Len(calls)].conversationId = conversationId

----------------------------------------------------------------------------
(* The scope selection with and without the lock (lockProjectScope).        *)

InitLocked ==
  /\ useStreaming = TRUE
  /\ workLimit = MaxScopesWork
  /\ probe = NoProbe
  /\ save = NoSave
  /\ configuredDefault = NoDefaultProps
  /\ scopeDefault \in ScopesConfigured
  /\ lockProjectScope \in BOOLEAN
  /\ initRuns = NoInitRuns
  /\ Constructed

SpecLocked == InitLocked /\ [][NextScopes]_vars

\* C39: while the scope selection is locked, scopeEnabled and
\* selectedScopePath change only when initialize() applies the configured
\* scope default.
C39_LockedScopeUnchanged ==
  [][(lockProjectScope /\ ~DefaultsApplied)
       => UNCHANGED <<scopeEnabled, selectedScopePath>>]_vars

====
